---- MODULE Spec2Model ----
(***************************************************************************)
(* Agent-Universal: Supervisor / Expert orchestration graph, the document  *)
(* stage of the retrieval client and the knowledge search tool.            *)
(*                                                                         *)
(* A message is a record [role, content]; a content is a sequence of text  *)
(* fragments (<<>> is the empty string, Python-falsy).  The language model *)
(* and the network are the environment: every value they can return, and   *)
(* every exception they can raise, is a nondeterministic choice.           *)
(***************************************************************************)
EXTENDS Naturals, Sequences, FiniteSets

VARIABLES
    mode,          \* "graph": app.ainvoke run; "node": one node function called; "fetch": _fetch_docs;
                   \* "concurrent": expert calls of several invocations interleaved;
                   \* "parser": XmlDocumentParser called on one payload;
                   \* "expert": execute_expert_node called with a tools_map of the caller's;
                   \* "search": KnowledgeSearchTool._arun
    pc,            \* node scheduled next by the graph / the node under call
    stage,         \* position inside the running node: "start" | "llm1" | "tool" | "forced_tool" | "llm2" | "forced_llm2"
    messages,      \* AgentState["messages"]
    next,          \* AgentState["next"]
    frame,         \* locals and counters of the current (or last finished) node call
    ret,           \* the state update the last finished node call returned
    raised,        \* an exception escaped the last node call
    trace,         \* node calls finished so far, in order
    items,         \* _fetch_docs: items_list
    results,       \* _fetch_docs: result of fetch_one per item index (<<>> while in flight)
    net,           \* _fetch_docs: what the network did to each item's request (None while in flight)
    fetch_stage,   \* _fetch_docs: "idle" | "gather" | "returned" | "raised"
    fetched,       \* _fetch_docs: the list returned to the caller
    store,         \* search: what the search service and the document endpoints hold, per query
    default_pubdivid, \* search: KnowledgeSearchTool._default_pubdivid
    call_args,     \* search: the arguments of the running _arun call
    tasks,         \* search: the _execute_single_search coroutines of the call, in query order
    results_list,  \* search: result of each coroutine (<<>> while it runs)
    search_stage,  \* search: "idle" | "called" | "gather" | "returned"
    output,        \* search: the string the call returned
    last_search_results, \* search: KnowledgeSearchTool._last_search_results (<<>> is None)
    calls,         \* search: the calls made before on this tool instance, in order
    relevance,     \* relevance filter: its input, the verdict per (query, document), its output
    parser,        \* XmlDocumentParser: the payload handed in, what parse and get_title returned
    sessions       \* concurrent invocations: the expert call of each and the tool instances built

vars == <<mode, pc, stage, messages, next, frame, ret, raised, trace,
          items, results, net, fetch_stage, fetched,
          store, default_pubdivid, call_args, tasks, results_list, search_stage,
          output, last_search_results, calls, relevance, parser, sessions>>

graph_vars == <<mode, pc, stage, messages, next, frame, ret, raised, trace>>

fetch_vars == <<items, results, net, fetch_stage, fetched>>

filter_vars == <<relevance>>

parser_vars == <<parser>>

session_vars == <<sessions>>

search_vars == <<store, default_pubdivid, call_args, tasks, results_list, search_stage,
                 output, last_search_results, calls>>

(***************************************************************************)
(* Bounds of the model                                                     *)
(***************************************************************************)
\* node calls in one graph run that the model follows
MaxSteps == 5

\* length of the history a node function is called with directly
MaxHist == 2

\* items handed to _fetch_docs
MaxItems == 3

\* items on the search page of one query
MaxDocs == 2

(***************************************************************************)
(* Messages                                                                *)
(***************************************************************************)
None == "None"

HumanMessage(c) == [role |-> "human", content |-> c]

AIMessage(c) == [role |-> "ai", content |-> c]

ToolMessage(c) == [role |-> "tool", content |-> c]

\* Python `x in content` for a text fragment x
Contains(c, x) == \E i \in DOMAIN c : c[i] = x

Last(s) == s[Len(s)]

SetMax(S) == CHOOSE m \in S : \A k \in S : k <= m

\* the two substrings the expert's search-evidence check looks for
\* (the source's Russian texts are written in Latin letters here)
TOOL_RESULT_HEADER == "Rezultat vypolneniya instrumenta"

SEARCH_TOOL_NAME == "internal_knowledge_search"

\* user texts: empty, a question, a text quoting a tool result of the search tool,
\* a text quoting a tool result of another tool
UserContents ==
    { <<>>, <<"question">>,
      <<TOOL_RESULT_HEADER, SEARCH_TOOL_NAME, "docs">>,
      <<TOOL_RESULT_HEADER, "search_legal_code", "docs">> }

\* FastAPI ChatRequest.message / main.py test_agent(query): one user message
EntryContents == { <<>>, <<"question">> }

\* fixed assistant texts of the expert nodes
SORRY_AFTER_SEARCH == <<"Izvinite, ne udalos sformirovat otvet posle poiska.">>

SORRY_UNDETERMINED == <<"Izvinite, ya ne smog opredelit dalneyshie deystviya.">>

SORRY_ERROR(e) == <<"Izvinite, proizoshla oshibka pri obrabotke vashego zaprosa: ", e>>

SEARCH_ERROR(e) == <<"Oshibka pri vypolnenii poiska: ", e>>

\* stages of a node call at which an exception can be raised
ExcStages == {"tool_construction", "prompt", "llm_construction", "llm1", "tool", "llm2"}

Apologies ==
    {SORRY_AFTER_SEARCH, SORRY_UNDETERMINED}
        \cup {SORRY_ERROR(e) : e \in ExcStages}
        \cup {SEARCH_ERROR(e) : e \in ExcStages}

(***************************************************************************)
(* State updates returned by a node                                        *)
(***************************************************************************)
NoNext == "<absent>"

\* an update is a dict with some of the keys of AgentState: a key it does not
\* hold is NoNext here (no node puts "search_results" in its update)
NoUpdate == [messages |-> <<>>, next |-> NoNext, search_results |-> NoNext]

\* {"next": n}
NextUpdate(n) == [messages |-> <<>>, next |-> n, search_results |-> NoNext]

\* {"messages": ms}
MessagesUpdate(ms) == [messages |-> ms, next |-> NoNext, search_results |-> NoNext]

Returned(u) == [raised |-> FALSE, update |-> u]

Escaped == [raised |-> TRUE, update |-> NoUpdate]

NoResponse == [action |-> None, tool |-> None, content |-> <<>>, references |-> <<>>]

NewFrame ==
    [ llm_calls   |-> 0,          \* llm.ainvoke calls made
      llm_done    |-> 0,          \* llm.ainvoke calls that have returned or raised
      tool_calls  |-> 0,          \* tool.ainvoke / tool.invoke calls made
      tool_done   |-> 0,          \* tool calls that have returned or raised
      exc         |-> {},         \* stages at which an exception was raised
      response    |-> NoResponse, \* the first (Decide) model output
      final_response |-> NoResponse, \* the output of the second model call
      forced      |-> FALSE,      \* the guard overrode final_answer
      tool_name   |-> None,
      tool_result |-> <<>>,
      tools_map   |-> {},         \* names bound in the tools_map of the expert call
      provider    |-> None,       \* state of the prompt provider during the call
      telemetry   |-> "skipped",  \* what became of the search-results event
      system_prompt |-> <<>>,     \* prompt_data["content"]
      materials   |-> <<>>,       \* what the called tool retains as its last results
      forced_args |-> <<>>,       \* tool_args of the forced tool call
      ground_prompt |-> <<>>,     \* system text of the second model call
      llm_input   |-> <<>> ]      \* text analysed by the last Supervisor model call

(***************************************************************************)
(* utils.py: LangfuseManager.get_prompt_data                               *)
(***************************************************************************)
\* the prompt provider during one call: it serves the prompt, the manager holds
\* no client (initialisation failed or no keys), or get_prompt/compile raises
PromptProviders == {"available", "unavailable", "fails"}

\* _get_fallback_prompt: the local template of the name (a not-found text for a
\* name without one), str.format-ed when keyword arguments are given.  A
\* fragment in braces is a replacement field to str.format: the legal template
\* holds a literal JSON example, whose field name the arguments do not have
get_fallback_prompt(prompt_name, kwargs) ==
    LET fallback_prompts ==
            [ name \in {"supervisor-system-prompt", "legal-expert-prompt"} |->
                IF name = "supervisor-system-prompt"
                THEN <<"fallback supervisor prompt", "{last_user_message}">>
                ELSE <<"fallback legal prompt", "{ action: call_tool, ... }",
                       "{last_user_message}">> ]
        prompt == IF prompt_name \in DOMAIN fallback_prompts
                  THEN fallback_prompts[prompt_name]
                  ELSE <<"Prompt not found: ", prompt_name>>
        field(x) == x \in {"{last_user_message}", "{ action: call_tool, ... }"}
        key_error == \E i \in DOMAIN prompt :
                        field(prompt[i]) /\ prompt[i] # "{last_user_message}"
        formatted == [i \in DOMAIN prompt |->
                        IF prompt[i] = "{last_user_message}" THEN "<last_user_message>"
                        ELSE prompt[i]]
    IN  IF kwargs = <<>> THEN [raised |-> FALSE, content |-> prompt]
        ELSE IF key_error THEN [raised |-> TRUE, content |-> <<>>]
        ELSE [raised |-> FALSE, content |-> formatted]

\* get_prompt_data: the provider's prompt, or the fallback when there is no
\* client or the provider raised; the fallback is built outside any try block
get_prompt_data(prompt_name, kwargs, provider) ==
    IF provider = "available"
    THEN [raised |-> FALSE, content |-> <<"provider prompt: ", prompt_name>>]
    ELSE get_fallback_prompt(prompt_name, kwargs)

(***************************************************************************)
(* graph.py: the orchestration graph                                       *)
(***************************************************************************)
END == "__end__"

\* workflow.add_node(...)
RegisteredNodes == {"supervisor", "legal_expert", "accounting_expert"}

ExpertNodes == {"legal_expert", "accounting_expert"}

\* workflow.set_entry_point("supervisor")
entry_point == "supervisor"

\* the conditional edge out of the supervisor, on state["next"]
route_supervisor(next_step) ==
    IF next_step = "LegalExpert" THEN "legal_expert"
    ELSE IF next_step = "AccountingExpert" THEN "accounting_expert"
    ELSE END

\* an expert wired straight to END
expert_edge_to_end(node) == END

\* workflow.add_edge(<expert>, "supervisor")
expert_edge(node) == "supervisor"

\* the node the graph schedules after `node` returned, the state holding next = n
successor(node, n) ==
    IF node = "supervisor" THEN route_supervisor(n) ELSE expert_edge(node)

\* a state whose messages field has no reducer: the update replaces the history
Finish_without_reducer(node, o) ==
    LET n == IF ~o.raised /\ o.update.next # NoNext THEN o.update.next ELSE next
    IN  /\ raised' = o.raised
        /\ ret' = o.update
        /\ messages' = IF o.raised THEN messages ELSE o.update.messages
        /\ next' = n
        /\ trace' = Append(trace, node)
        /\ stage' = "start"
        /\ pc' = IF o.raised THEN "crashed"
                 ELSE IF mode = "graph" THEN successor(node, n)
                 ELSE "returned"
        /\ UNCHANGED <<mode, fetch_vars, search_vars, filter_vars, parser_vars, session_vars>>

\* A node call ends with outcome o = [raised, update]: the update is merged into
\* the state (messages by operator.add, next by overwrite) and, in a graph run,
\* the graph moves along its edge.  An escaped exception aborts the run.
Finish(node, o) ==
    LET n == IF ~o.raised /\ o.update.next # NoNext THEN o.update.next ELSE next
    IN  /\ raised' = o.raised
        /\ ret' = o.update
        /\ messages' = IF o.raised THEN messages ELSE messages \o o.update.messages
        /\ next' = n
        /\ trace' = Append(trace, node)
        /\ stage' = "start"
        /\ pc' = IF o.raised THEN "crashed"
                 ELSE IF mode = "graph" THEN successor(node, n)
                 ELSE "returned"
        /\ UNCHANGED <<mode, fetch_vars, search_vars, filter_vars, parser_vars, session_vars>>

\* the node keeps running (it is suspended on an await)
Suspend(st) ==
    /\ stage' = st
    /\ UNCHANGED <<mode, pc, messages, next, ret, raised, trace, fetch_vars, search_vars, filter_vars, parser_vars, session_vars>>

(***************************************************************************)
(* nodes/supervisor.py                                                     *)
(***************************************************************************)
\* class RouteResponse: next: Literal["LegalExpert", "FINISH"]
RouteResponse == {"LegalExpert", "FINISH"}

\* what the routing model can produce before schema validation, or a failed call
RawRouteOutputs == {"LegalExpert", "FINISH", "AccountingExpert", "garbage", "<call failed>"}

\* the loop over reversed(messages): the content of the last message that has a
\* non-empty content, whatever its role; <<>> stands for None (only its truth
\* value is read)
last_user_message_of_supervisor(msgs) ==
    LET idx == {i \in DOMAIN msgs : msgs[i].content # <<>>}
    IN  IF idx = {} THEN <<>> ELSE msgs[SetMax(idx)].content

\* the analysis prompt handed to the model
analysis_prompt(msgs) ==
    IF msgs # <<>> /\ last_user_message_of_supervisor(msgs) # <<>>
    THEN <<"system_prompt", "analyse:">> \o last_user_message_of_supervisor(msgs)
    ELSE <<"system_prompt", "no messages to analyse, finish">>

\* a try block that ends before the model call: its exception leaves the node
supervisor_except_llm_escapes(at) ==
    IF at = "llm1" THEN Escaped ELSE Returned(NextUpdate("FINISH"))

\* an exception handler that returns an update without the next key
supervisor_except_without_next(at) == Returned(NoUpdate)

\* except Exception: return {"next": "FINISH"}
supervisor_except(at) == Returned(NextUpdate("FINISH"))

\* llm.with_structured_output(RouteResponse): a value outside the Literal fails
\* validation, which raises inside the try block; return {"next": response.next}
supervisor_return(raw) ==
    IF raw \in RouteResponse THEN Returned(NextUpdate(raw)) ELSE supervisor_except("llm1")

\* supervisor_node up to `await llm.ainvoke`: get_prompt_data, create_supervisor_llm,
\* the analysis prompt; any of the first two may raise
SupervisorBegin ==
    /\ mode \in {"graph", "node"}
    /\ pc = "supervisor"
    /\ stage = "start"
    /\ Len(trace) < MaxSteps
    /\ \E provider \in PromptProviders, llm_fail \in {None, "llm_construction"} :
        LET prompt_data == get_prompt_data("supervisor-system-prompt", <<>>, provider)
            fail == IF prompt_data.raised THEN "prompt" ELSE llm_fail
            called == [NewFrame EXCEPT !.provider = provider,
                                       !.system_prompt = prompt_data.content]
        IN  IF fail = None
            THEN /\ frame' = [called EXCEPT !.llm_calls = 1,
                                            !.llm_input = analysis_prompt(messages)]
                 /\ Suspend("llm1")
            ELSE /\ frame' = [called EXCEPT !.exc = {fail}]
                 /\ Finish("supervisor", supervisor_except(fail))

\* the model call returns (or raises) and supervisor_node returns
SupervisorDecide ==
    /\ pc = "supervisor"
    /\ stage = "llm1"
    /\ \E raw \in RawRouteOutputs :
        /\ frame' = [frame EXCEPT !.exc = IF raw \in RouteResponse THEN {} ELSE {"llm1"},
                                   !.llm_done = @ + 1]
        /\ Finish("supervisor", supervisor_return(raw))

(***************************************************************************)
(* Expert model outputs and tools                                          *)
(***************************************************************************)
\* AgentAction of legal_expert.py: tool_name is a Literal of two names, no references
LegalActions ==
    [ action : {"call_tool", "final_answer"},
      tool : {None, "search_legal_code", "internal_knowledge_search"},
      content : {<<>>, <<"answer">>},
      references : {<<>>} ]

\* AgentAction of accounting_expert.py: one tool name, optional references
AccountingActions ==
    [ action : {"call_tool", "final_answer"},
      tool : {None, "internal_knowledge_search"},
      content : {<<>>, <<"answer">>},
      references : {<<>>, <<"ref1", "ref2">>} ]

\* what a tool call can do: return documents, return its no-documents text, raise
ToolOutcomes == {"docs", "nodocs", "raise"}

ToolOutput(outcome) ==
    IF outcome = "docs" THEN <<"SEARCH METADATA", "Search Query", "Results">>
    ELSE <<"No documents found matching your queries.">>

\* KnowledgeSearchTool.get_last_search_results() after the call: the mapping
\* query -> documents the call assigned (a query without documents keeps its
\* key), None (<<>>) when the call raised or the tool is not the search tool
get_last_search_results(tool_name, outcome) ==
    IF tool_name # SEARCH_TOOL_NAME \/ outcome = "raise" THEN <<>>
    ELSE <<[query |-> "q1",
            documents |-> IF outcome = "docs"
                          THEN <<[title |-> "t1", url |-> "u1", content |-> "c1"],
                                 [title |-> "t2", url |-> "u2", content |-> "c2"]>>
                          ELSE <<>>]>>

\* the isinstance(msg, HumanMessage) and msg.content loop of the expert nodes;
\* <<>> stands for None (only its truth value is read)
last_user_message(msgs) ==
    LET idx == {i \in DOMAIN msgs : msgs[i].role = "human" /\ msgs[i].content # <<>>}
    IN  IF idx = {} THEN <<>> ELSE msgs[SetMax(idx)].content

(***************************************************************************)
(* nodes/legal_expert.py                                                   *)
(***************************************************************************)
legal_tools_map == {"search_legal_code", "internal_knowledge_search"}

\* except Exception: one AIMessage carrying the apology and str(e)
legal_except(at) == Returned(MessagesUpdate(<<AIMessage(SORRY_ERROR(at))>>))

\* the branch taken on the first model output: "tool" (go on to the tool call) or
\* "return" with the update returned
legal_decide(r) ==
    IF r.action = "call_tool" /\ r.tool # None
    THEN [goto |-> "tool", out |-> Returned(NoUpdate)]
    ELSE IF r.action = "final_answer" /\ r.content # <<>>
    THEN [goto |-> "return", out |-> Returned(MessagesUpdate(<<AIMessage(r.content)>>))]
    ELSE [goto |-> "return", out |-> Returned(MessagesUpdate(<<AIMessage(SORRY_UNDETERMINED)>>))]

\* tool_result: the not-found text, the text of a caught tool exception, or the output
legal_tool_result(tool_name, outcome) ==
    IF tool_name \notin legal_tools_map THEN <<"Error: Tool not found: ", tool_name>>
    ELSE IF outcome = "raise" THEN <<"Error executing tool: ", tool_name>>
    ELSE ToolOutput(outcome)

\* the messages returned after the second model call
legal_answer(final, tool_result) ==
    IF final.content # <<>>
    THEN <<AIMessage(final.content), ToolMessage(tool_result)>>
    ELSE <<AIMessage(SORRY_AFTER_SEARCH)>>

\* legal_expert_node up to the first `await llm.ainvoke`
LegalBegin ==
    /\ mode \in {"graph", "node"}
    /\ pc = "legal_expert"
    /\ stage = "start"
    /\ Len(trace) < MaxSteps
    /\ \E provider \in PromptProviders,
          later_fail \in {None, "tool_construction", "llm_construction"} :
        LET prompt_data == get_prompt_data("legal-expert-prompt",
                                           last_user_message(messages), provider)
            fail == IF prompt_data.raised THEN "prompt" ELSE later_fail
            called == [NewFrame EXCEPT !.provider = provider,
                                       !.system_prompt = prompt_data.content]
        IN  IF fail = None
            THEN /\ frame' = [called EXCEPT !.llm_calls = 1]
                 /\ Suspend("llm1")
            ELSE /\ frame' = [called EXCEPT !.exc = {fail}]
                 /\ Finish("legal_expert", legal_except(fail))

\* the first model call raises, or returns: answer directly, fall back, or start
\* the tool call
LegalDecide ==
    /\ pc = "legal_expert"
    /\ stage = "llm1"
    /\ \/ /\ frame' = [frame EXCEPT !.exc = @ \cup {"llm1"}, !.llm_done = @ + 1]
          /\ Finish("legal_expert", legal_except("llm1"))
       \/ \E r \in LegalActions :
            IF legal_decide(r).goto = "tool"
            THEN /\ frame' = [frame EXCEPT !.llm_done = @ + 1, !.response = r, !.tool_name = r.tool,
                                           !.tool_calls = IF r.tool \in legal_tools_map
                                                          THEN @ + 1 ELSE @]
                 /\ Suspend("tool")
            ELSE /\ frame' = [frame EXCEPT !.llm_done = @ + 1, !.response = r]
                 /\ Finish("legal_expert", legal_decide(r).out)

\* the tool call returns or raises (caught: the error text is the tool result);
\* the node goes on to the second `await llm.ainvoke`
LegalTool ==
    /\ pc = "legal_expert"
    /\ stage = "tool"
    /\ \E outcome \in ToolOutcomes :
        /\ frame' = [frame EXCEPT
                        !.tool_result = legal_tool_result(frame.tool_name, outcome),
                        !.materials = IF frame.tool_name \in legal_tools_map
                                      THEN get_last_search_results(frame.tool_name, outcome)
                                      ELSE <<>>,
                        !.ground_prompt = frame.system_prompt,
                        !.tool_done = frame.tool_calls,
                        !.exc = IF outcome = "raise" THEN @ \cup {"tool"} ELSE @,
                        !.llm_calls = @ + 1]
        /\ Suspend("llm2")

\* the second model call returns (or raises) and legal_expert_node returns
LegalGround ==
    /\ pc = "legal_expert"
    /\ stage = "llm2"
    /\ \/ /\ frame' = [frame EXCEPT !.exc = @ \cup {"llm2"}, !.llm_done = @ + 1]
          /\ Finish("legal_expert", legal_except("llm2"))
       \/ \E r \in LegalActions :
            /\ frame' = [frame EXCEPT !.llm_done = @ + 1, !.final_response = r]
            /\ Finish("legal_expert",
                      Returned(MessagesUpdate(legal_answer(r, frame.tool_result))))

(***************************************************************************)
(* nodes/base_expert.py and nodes/accounting_expert.py                     *)
(***************************************************************************)
accounting_tools_map == {"internal_knowledge_search"}

\* the scan of the history for a user message holding both marker substrings
has_search_results(msgs) ==
    \E i \in DOMAIN msgs :
        /\ msgs[i].role = "human"
        /\ msgs[i].content # <<>>
        /\ Contains(msgs[i].content, TOOL_RESULT_HEADER)
        /\ Contains(msgs[i].content, SEARCH_TOOL_NAME)

\* "\n".join([f"- {r}" for r in references])
RECURSIVE join_refs(_)
join_refs(refs) ==
    IF refs = <<>> THEN <<>>
    ELSE IF Len(refs) = 1 THEN <<"- ", refs[1]>>
    ELSE <<"- ", refs[1], "\n">> \o join_refs(Tail(refs))

\* the references of the output dropped
final_content_without_references(r) == r.content

\* final_content: the content, plus the references list when there is one
final_content(r) ==
    IF r.references # <<>>
    THEN r.content \o <<"\n\nIspolzovannye materialy:\n">> \o join_refs(r.references)
    ELSE r.content

\* the outer except Exception of execute_expert_node
expert_except(at) == Returned(MessagesUpdate(<<AIMessage(SORRY_ERROR(at))>>))

\* the except Exception around the forced tool call and its grounding call
forced_except(at) == Returned(MessagesUpdate(<<AIMessage(SEARCH_ERROR(at))>>))

\* what the telemetry sink does with the search_results_structured event: the
\* manager holds no client, client.event returns, client.event raises
TelemetryOutcomes == {"no_client", "ok", "raise"}

\* the event emitted outside any try block: a raising sink raises in the tool's
\* try block
search_telemetry_uncaught(outcome, emit) ==
    [ raised |-> outcome # "raise" /\ emit = "raise",
      event  |-> IF outcome # "raise" THEN emit ELSE "skipped" ]

\* the block after a search tool returned: the structured results are read
\* back and sent as one event, inside try/except Exception that only prints
search_telemetry(outcome, emit) ==
    [ raised |-> FALSE,
      event  |-> IF outcome # "raise" THEN emit ELSE "skipped" ]

\* accounting_expert_node builds its tool before it enters execute_expert_node,
\* whose try block is the only handler
accounting_except(at) ==
    IF at = "tool_construction" THEN Escaped ELSE expert_except(at)

\* len(content) of the user texts: a question is short, a text that quotes a
\* tool result is longer than the 200 characters kept for a forced query
content_chars(content) ==
    IF content = <<>> THEN 0
    ELSE IF Contains(content, TOOL_RESULT_HEADER) THEN 4000
    ELSE 8

\* the whole message as the query
forced_tool_args_untruncated(msgs) ==
    [ queries |-> <<[of |-> last_user_message(msgs),
                     chars |-> content_chars(last_user_message(msgs))]>>,
      limit |-> 3 ]

\* tool_args of the forced call: search_query = last_user_message[:200], the
\* slice being the text it is cut from and the characters kept
forced_tool_args(msgs) ==
    LET n == content_chars(last_user_message(msgs))
    IN  [ queries |-> <<[of |-> last_user_message(msgs),
                         chars |-> IF n <= 200 THEN n ELSE 200]>>,
          limit |-> 3 ]

\* the guard: final_answer without search evidence, a user message to search for,
\* and the search tool bound
expert_guard(r, msgs, tools_map) ==
    /\ r.action = "final_answer"
    /\ ~has_search_results(msgs)
    /\ last_user_message(msgs) # <<>>
    /\ SEARCH_TOOL_NAME \in tools_map

\* the branch taken on the first model output
expert_decide(r, msgs, tools_map) ==
    IF expert_guard(r, msgs, tools_map)
    THEN [goto |-> "forced_tool", out |-> Returned(NoUpdate)]
    ELSE IF r.action = "call_tool" /\ r.tool # None
    THEN [goto |-> "tool", out |-> Returned(NoUpdate)]
    ELSE IF r.action = "final_answer" /\ r.content # <<>>
    THEN [goto |-> "return", out |-> Returned(MessagesUpdate(<<AIMessage(final_content(r))>>))]
    ELSE [goto |-> "return", out |-> Returned(MessagesUpdate(<<AIMessage(SORRY_UNDETERMINED)>>))]

\* tool_result of the decided tool call
expert_tool_result(tool_name, outcome, tools_map) ==
    IF tool_name \notin tools_map THEN <<"Error: Tool not found: ", tool_name>>
    ELSE IF outcome = "raise" THEN <<"Error executing tool: ", tool_name>>
    ELSE ToolOutput(outcome)

\* materials_list joined: per query its header, per document its number, title,
\* url and content (the first 2000 characters, the texts here are shorter)
RECURSIVE search_materials_text(_)
search_materials_text(structured_results) ==
    IF structured_results = <<>> THEN <<>>
    ELSE LET res == Head(structured_results)
             docs == res.documents
             material(idx) == <<"\nMaterial ", <<"1", "2">>[idx], "\n  Naimenovanie: ", docs[idx].title,
                                "\n  URL: ", docs[idx].url,
                                "\n  Soderzhanie:\n", docs[idx].content, "...">>
             listed[idx \in 0..Len(docs)] ==
                 IF idx = 0 THEN <<>> ELSE listed[idx - 1] \o material(idx)
         IN  <<"\nPoiskovyy zapros: ", res.query>> \o listed[Len(docs)]
                 \o search_materials_text(Tail(structured_results))

\* the system text of the grounding call: the prompt, followed by the materials
\* and the instruction to answer from them when there are materials
updated_system_prompt(system_prompt, structured_results) ==
    IF search_materials_text(structured_results) # <<>>
    THEN system_prompt \o <<"NAYDENNYE MATERIALY IZ VNUTRENNEY BAZY ZNANIY:">>
             \o search_materials_text(structured_results)
             \o <<"KRITICHESKI VAZHNO: otvet strogo na osnove naydennyh materialov">>
    ELSE system_prompt

\* a second output that asks for a tool again gets no answer message
expert_answer_only_final_answer(final) ==
    IF final.action = "call_tool" THEN <<>>
    ELSE IF final.content # <<>> THEN <<AIMessage(final_content(final))>>
    ELSE <<AIMessage(SORRY_AFTER_SEARCH)>>

\* the content of the second model output appended as it is
expert_answer_unchecked(final) == <<AIMessage(final_content(final))>>

\* the messages returned after the grounding model call (both tool paths)
expert_answer(final) ==
    IF final.content # <<>>
    THEN <<AIMessage(final_content(final))>>
    ELSE <<AIMessage(SORRY_AFTER_SEARCH)>>

\* accounting_expert_node (or, in mode "expert", execute_expert_node itself) up
\* to the first `await llm.ainvoke`; the tool is built by accounting_expert_node,
\* which binds it in tools_map; a direct call passes a map of the caller's
AccountingBegin ==
    /\ mode \in {"node", "expert"}
    /\ pc = "accounting_expert"
    /\ stage = "start"
    /\ Len(trace) < MaxSteps
    /\ \E tm \in (IF mode = "expert" THEN SUBSET accounting_tools_map
                  ELSE {accounting_tools_map}),
          provider \in PromptProviders :
       \E other_fail \in {None, "llm_construction"}
                        \cup (IF mode = "node" THEN {"tool_construction"} ELSE {}) :
        LET prompt_data == get_prompt_data("accounting-expert-prompt",
                                           last_user_message(messages), provider)
            fail == IF other_fail # "tool_construction" /\ prompt_data.raised
                    THEN "prompt" ELSE other_fail
            called == IF fail = "tool_construction"
                      THEN [NewFrame EXCEPT !.tools_map = tm]
                      ELSE [NewFrame EXCEPT !.tools_map = tm, !.provider = provider,
                                            !.system_prompt = prompt_data.content]
        IN  IF fail = None
            THEN /\ frame' = [called EXCEPT !.llm_calls = 1]
                 /\ Suspend("llm1")
            ELSE /\ frame' = [called EXCEPT !.exc = {fail}]
                 /\ Finish("accounting_expert", accounting_except(fail))

\* the first model call raises, or returns and the guard and the branches run
AccountingDecide ==
    /\ pc = "accounting_expert"
    /\ stage = "llm1"
    /\ \/ /\ frame' = [frame EXCEPT !.exc = @ \cup {"llm1"}, !.llm_done = @ + 1]
          /\ Finish("accounting_expert", expert_except("llm1"))
       \/ \E r \in AccountingActions :
            LET d == expert_decide(r, messages, frame.tools_map)
            IN  IF d.goto = "forced_tool"
                THEN /\ frame' = [frame EXCEPT !.llm_done = @ + 1, !.response = r, !.forced = TRUE,
                                               !.tool_name = SEARCH_TOOL_NAME,
                                               !.forced_args = forced_tool_args(messages),
                                               !.tool_calls = @ + 1]
                     /\ Suspend("forced_tool")
                ELSE IF d.goto = "tool"
                THEN /\ frame' = [frame EXCEPT !.llm_done = @ + 1, !.response = r, !.tool_name = r.tool,
                                               !.tool_calls = IF r.tool \in frame.tools_map
                                                              THEN @ + 1 ELSE @]
                     /\ Suspend("tool")
                ELSE /\ frame' = [frame EXCEPT !.llm_done = @ + 1, !.response = r]
                     /\ Finish("accounting_expert", d.out)

\* the forced tool call raises (the node returns the search-error message) or
\* returns and the node goes on to the grounding model call
AccountingForcedTool ==
    /\ pc = "accounting_expert"
    /\ stage = "forced_tool"
    /\ \E outcome \in ToolOutcomes, emit \in TelemetryOutcomes :
        LET logged == search_telemetry(outcome, emit)
        IN  IF outcome = "raise" \/ logged.raised
            THEN /\ frame' = [frame EXCEPT !.exc = @ \cup {"tool"}, !.tool_done = @ + 1,
                                           !.telemetry = logged.event]
                 /\ Finish("accounting_expert", forced_except("tool"))
            ELSE /\ frame' = [frame EXCEPT !.tool_result = ToolOutput(outcome),
                                           !.materials = get_last_search_results(frame.tool_name, outcome),
                                           !.ground_prompt = updated_system_prompt(frame.system_prompt,
                                               get_last_search_results(frame.tool_name, outcome)),
                                           !.tool_done = @ + 1,
                                           !.telemetry = logged.event,
                                           !.llm_calls = @ + 1]
                 /\ Suspend("forced_llm2")

\* the grounding model call of the forced path returns or raises
AccountingForcedGround ==
    /\ pc = "accounting_expert"
    /\ stage = "forced_llm2"
    /\ \/ /\ frame' = [frame EXCEPT !.exc = @ \cup {"llm2"}, !.llm_done = @ + 1]
          /\ Finish("accounting_expert", forced_except("llm2"))
       \/ \E r \in AccountingActions :
            /\ frame' = [frame EXCEPT !.llm_done = @ + 1, !.final_response = r]
            /\ Finish("accounting_expert", Returned(MessagesUpdate(expert_answer(r))))

\* the decided tool call returns or raises (caught: the error text is the result)
AccountingTool ==
    /\ pc = "accounting_expert"
    /\ stage = "tool"
    /\ \E outcome \in ToolOutcomes, emit \in TelemetryOutcomes :
        LET bound == frame.tool_name \in frame.tools_map
            logged == search_telemetry(IF bound THEN outcome ELSE "raise", emit)
            caught == bound /\ (outcome = "raise" \/ logged.raised)
            structured_results ==
                IF bound THEN get_last_search_results(frame.tool_name,
                                  IF caught THEN "raise" ELSE outcome)
                ELSE <<>>
        IN  /\ frame' = [frame EXCEPT
                            !.materials = structured_results,
                            !.ground_prompt = updated_system_prompt(frame.system_prompt,
                                                                    structured_results),
                            !.tool_result = expert_tool_result(frame.tool_name,
                                                IF caught THEN "raise" ELSE outcome,
                                                frame.tools_map),
                            !.tool_done = frame.tool_calls,
                            !.telemetry = logged.event,
                            !.exc = IF caught THEN @ \cup {"tool"} ELSE @,
                            !.llm_calls = @ + 1]
            /\ Suspend("llm2")

\* the grounding model call of the decided path returns or raises
AccountingGround ==
    /\ pc = "accounting_expert"
    /\ stage = "llm2"
    /\ \/ /\ frame' = [frame EXCEPT !.exc = @ \cup {"llm2"}, !.llm_done = @ + 1]
          /\ Finish("accounting_expert", expert_except("llm2"))
       \/ \E r \in AccountingActions :
            /\ frame' = [frame EXCEPT !.llm_done = @ + 1, !.final_response = r]
            /\ Finish("accounting_expert", Returned(MessagesUpdate(expert_answer(r))))

(***************************************************************************)
(* tools/action_internal/client.py: SearchClient._fetch_docs               *)
(***************************************************************************)
\* collections served by the internal gateway
GatewayPubdivids == {3, 13}

\* collections the model searches
Pubdivids == {1, 3, 13}

\* what can happen to one document request: a JSON body, client.get raising, an
\* HTTP error status (raise_for_status), a content-type that is not JSON, a body
\* that resp.json() cannot decode
FetchOutcomes == {"ok", "transport", "http_status", "content_type", "bad_json"}

\* fetch_one with client.get outside the try block: a transport error leaves it
fetch_one_get_uncaught(item, outcome) ==
    LET gateway == item.pubdivid \in GatewayPubdivids
        url == IF gateway THEN <<"INTERNAL_GATEWAY_API_URL", item.moduleId, item.id>>
               ELSE <<"DOC_API_URL", item.moduleId, item.id>>
    IN  [ raised     |-> outcome = "transport",
          item       |-> [item EXCEPT !.url = url],
          authorized |-> gateway,
          document   |-> IF outcome = "ok" THEN <<[body_of |-> item.id]>> ELSE <<>>,
          error      |-> IF outcome \in {"ok", "transport"} THEN <<>> ELSE <<outcome>> ]

\* fetch_one: SearchResult(item, document, error), plus the endpoint asked and
\* whether the exception left the coroutine.  <<>> stands for None.
fetch_one(item, outcome) ==
    LET gateway == item.pubdivid \in GatewayPubdivids
        url == IF gateway THEN <<"INTERNAL_GATEWAY_API_URL", item.moduleId, item.id>>
               ELSE <<"DOC_API_URL", item.moduleId, item.id>>
    IN  [ raised     |-> FALSE,
          item       |-> [item EXCEPT !.url = url],
          authorized |-> gateway,
          document   |-> IF outcome = "ok" THEN <<[body_of |-> item.id]>> ELSE <<>>,
          error      |-> IF outcome = "ok" THEN <<>> ELSE <<outcome>> ]

\* the items of one search page after _extract_items: ids in page order, all of
\* the searched collection
ItemsOf(n, p) ==
    [i \in 1..n |-> [id |-> i, moduleId |-> 99, pubdivid |-> p, url |-> <<>>]]

\* one fetch_one coroutine of the gather completes; an exception leaving it
\* leaves gather and _fetch_docs
FetchOne ==
    /\ mode = "fetch"
    /\ fetch_stage = "gather"
    /\ \E i \in DOMAIN items :
        /\ results[i] = <<>>
        /\ \E outcome \in FetchOutcomes :
            LET r == fetch_one(items[i], outcome)
            IN  /\ net' = [net EXCEPT ![i] = outcome]
                /\ results' = [results EXCEPT ![i] = <<r>>]
                /\ fetch_stage' = IF r.raised THEN "raised" ELSE fetch_stage
    /\ UNCHANGED <<items, fetched, graph_vars, search_vars, filter_vars, parser_vars, session_vars>>

\* every coroutine is done: gather returns the results in item order
FetchJoin ==
    /\ mode = "fetch"
    /\ fetch_stage = "gather"
    /\ \A i \in DOMAIN items : results[i] # <<>>
    /\ fetched' = [i \in DOMAIN items |-> results[i][1]]
    /\ fetch_stage' = "returned"
    /\ UNCHANGED <<items, results, net, graph_vars, search_vars, filter_vars, parser_vars, session_vars>>

(***************************************************************************)
(* tools/action_search_tool.py: KnowledgeSearchTool                        *)
(***************************************************************************)
\* len(parsed_text) above which a content is cut
MAX_CHARS == 4000

\* len("\n...[Content Truncated]...")
TRUNCATION_MARKER_LEN == 26

\* effective_limit of a call made without a limit
DEFAULT_LIMIT == 5

TRUNCATION_MARKER == "...[Content Truncated]..."

SetMin(S) == CHOOSE m \in S : \A k \in S : m <= k

Min(a, b) == IF a <= b THEN a ELSE b

\* Python s[:n] for n >= 0
py_slice_to(s, n) == SubSeq(s, 1, Min(n, Len(s)))

Queries == {"q1", "q2"}

QueryNo(q) == IF q = "q1" THEN 1 ELSE 2

\* the id of the i-th item on the search page of query q
DocId(q, i) == 10 * QueryNo(q) + i

\* A document as the store holds it: how the request for it ends (net), whether
\* the JSON body is empty (Python-falsy), whether the body has the shape its
\* parser expects, the title field of the body and the length of the text a
\* parser extracts from it.
Body(n, e, s, t, c) == [net |-> n, empty |-> e, shape |-> s, title |-> t, chars |-> c]

\* a short document, one of exactly MAX_CHARS characters, one a character longer,
\* an empty body, a body of unexpected shape, a failed request
RichBodies ==
    { Body("ok", FALSE, "well_formed", <<"title">>, 1),
      Body("ok", FALSE, "well_formed", <<>>, MAX_CHARS),
      Body("ok", FALSE, "well_formed", <<>>, MAX_CHARS + 1),
      Body("ok", TRUE, "well_formed", <<>>, 0),
      Body("ok", FALSE, "malformed", <<>>, 0),
      Body("transport", FALSE, "well_formed", <<>>, 0) }

CoarseBodies ==
    { Body("ok", FALSE, "well_formed", <<>>, 1),
      Body("transport", FALSE, "well_formed", <<>>, 0) }

\* how the request for a search page ends
PageOutcomes == {"ok", "transport", "content_type"}

\* the search page of one query: the outcome of its request and the documents
\* behind its items, in page order
Pages(bodies) ==
    {[page |-> o, docs |-> <<>>] : o \in PageOutcomes \ {"ok"}}
        \cup {[page |-> "ok", docs |-> d] :
                d \in UNION {[1..n -> bodies] : n \in 0..MaxDocs}}

\* the body behind the item with identifier id of query q
BodyOf(q, id) == store[q].docs[id - 10 * QueryNo(q)]

\* SearchClient._extract_items on the page of query q
SearchItemsOf(q, p) ==
    [i \in DOMAIN store[q].docs |->
        [id |-> DocId(q, i), moduleId |-> 99, pubdivid |-> p, url |-> <<>>]]

\* a text: the characters taken from a document, and what was appended to them
Text(id, c) == [of |-> id, chars |-> c, tail |-> <<>>]

\* Python len(text)
TextLen(t) == t.chars + (IF t.tail = <<>> THEN 0 ELSE TRUNCATION_MARKER_LEN)

\* XmlDocumentParser.parse: never raises; a body of unexpected shape gives ""
xml_parse(id, body) ==
    [raised |-> FALSE,
     parser |-> "xml",
     text |-> IF body.shape = "malformed" THEN Text(id, 0) ELSE Text(id, body.chars)]

\* XmlDocumentParser.get_title: the title field, "" without one
xml_get_title(body) == IF body.shape = "malformed" THEN <<>> ELSE body.title

\* JsonDocumentParser.parse: raises on a body of unexpected shape
json_parse(id, body) ==
    [raised |-> body.shape = "malformed",
     parser |-> "json",
     text |-> IF body.shape = "malformed" THEN Text(id, 0) ELSE Text(id, body.chars)]

\* parsed_text[:MAX_CHARS] + marker when len(parsed_text) > MAX_CHARS
truncate(parsed_text) ==
    IF TextLen(parsed_text) > MAX_CHARS
    THEN [parsed_text EXCEPT !.chars = MAX_CHARS, !.tail = <<TRUNCATION_MARKER>>]
    ELSE parsed_text

\* Python truthiness of SearchResult.document
has_document(res, body) == res.document # <<>> /\ ~body.empty

\* the XML parser selected for collection 13 only
parse_document_xml_for_13_only(res, body) ==
    IF res.item.pubdivid = 13
    THEN xml_parse(res.item.id, body)
    ELSE json_parse(res.item.id, body)

\* the try block of the loop: the parser selected by the item's collection
parse_document(res, body) ==
    IF res.item.pubdivid \in GatewayPubdivids
    THEN xml_parse(res.item.id, body)
    ELSE json_parse(res.item.id, body)

document_title(res, body) ==
    IF res.item.pubdivid \in GatewayPubdivids /\ xml_get_title(body) # <<>>
    THEN xml_get_title(body)
    ELSE <<"Untitled">>

\* the dict appended to structured_docs
structured_doc(res, body) ==
    [ title     |-> document_title(res, body),
      url       |-> res.item.url,
      content   |-> truncate(parse_document(res, body).text),
      source_id |-> res.item.id,
      module_id |-> res.item.moduleId ]

\* SearchClient.max_connections: the limit of one AsyncClient's pool
MAX_CONNECTIONS == 50

\* the httpx.AsyncClient that carries the requests of coroutine t: every call of
\* fetch_search_pages_and_docs opens its own (async with httpx.AsyncClient(...)),
\* and each coroutine of _arun makes one such call
client_of(t) == t

\* the loop with the first failed item ending it
RECURSIVE search_loop_break_on_failure(_, _)
search_loop_break_on_failure(rs, q) ==
    IF rs = <<>> THEN <<>>
    ELSE LET res == Head(rs)
             body == BodyOf(q, res.item.id)
         IN  IF res.error # <<>> THEN <<>>
             ELSE IF ~has_document(res, body) THEN <<>>
             ELSE IF parse_document(res, body).raised THEN <<>>
             ELSE <<structured_doc(res, body)>> \o search_loop_break_on_failure(Tail(rs), q)

\* for res in results[:limit]: an item with an error, without a document or
\* whose parser raised is skipped
RECURSIVE search_loop(_, _)
search_loop(rs, q) ==
    IF rs = <<>> THEN <<>>
    ELSE LET res == Head(rs)
             body == BodyOf(q, res.item.id)
             rest == search_loop(Tail(rs), q)
         IN  IF res.error # <<>> THEN rest
             ELSE IF ~has_document(res, body) THEN rest
             ELSE IF parse_document(res, body).raised THEN rest
             ELSE <<structured_doc(res, body)>> \o rest

\* what _execute_single_search returns once the client returned rs
execute_single_search(q, rs, limit) ==
    [query |-> q, documents |-> search_loop(py_slice_to(rs, limit), q)]

\* results placed in the order in which the awaitables complete
gather_as_completed(rs, i, r) ==
    [rs EXCEPT ![SetMin({k \in DOMAIN rs : rs[k] = <<>>})] = <<r>>]

\* asyncio.gather: the result of the i-th awaitable is the i-th result
gather(rs, i, r) == [rs EXCEPT ![i] = <<r>>]

\* search_queries of a call
search_queries(args) ==
    IF args.queries # <<>> THEN args.queries
    ELSE IF args.query # None THEN <<args.query>>
    ELSE <<>>

effective_limit(args) == IF args.limit # <<>> THEN args.limit[1] ELSE DEFAULT_LIMIT

NoOutput == [kind |-> "none", header |-> <<>>, blocks |-> <<>>, error |-> <<>>]

\* "Error: No search queries provided. ..."
NoQueriesOutput == [NoOutput EXCEPT !.kind = "no_queries"]

\* "Error executing search: <e>"
ErrorOutput(e) == [NoOutput EXCEPT !.kind = "error", !.error = <<e>>]

\* the metadata header and one block per result, or the no-documents text when
\* only the header was produced
format_output(args, pubdivid, rl) ==
    IF Len(rl) + 1 <= 1
    THEN [NoOutput EXCEPT !.kind = "no_documents"]
    ELSE [ kind   |-> "formatted",
           header |-> <<search_queries(args), effective_limit(args), pubdivid>>,
           blocks |-> [t \in DOMAIN rl |->
                        [ query     |-> rl[t].query,
                          documents |-> [d \in DOMAIN rl[t].documents |->
                                [ title   |-> rl[t].documents[d].title,
                                  url     |-> rl[t].documents[d].url,
                                  content |-> rl[t].documents[d].content ]] ]],
           error  |-> <<>> ]

\* a mapping that leaves out the queries without documents
structured_results_without_empty(rl) ==
    [q \in {rl[t].query : t \in {u \in DOMAIN rl : rl[u].documents # <<>>}} |->
        LET last == SetMax({t \in DOMAIN rl : rl[t].query = q})
        IN  [d \in DOMAIN rl[last].documents |->
                [ title   |-> rl[last].documents[d].title,
                  url     |-> rl[last].documents[d].url,
                  content |-> rl[last].documents[d].content ]]]

\* structured_results: a dict keyed by query, a later result of the same query
\* replacing an earlier one
structured_results(rl) ==
    [q \in {rl[t].query : t \in DOMAIN rl} |->
        LET last == SetMax({t \in DOMAIN rl : rl[t].query = q})
        IN  [d \in DOMAIN rl[last].documents |->
                [ title   |-> rl[last].documents[d].title,
                  url     |-> rl[last].documents[d].url,
                  content |-> rl[last].documents[d].content ]]]

NewTask(q) ==
    [query |-> q, page |-> "pending", items |-> <<>>, net |-> <<>>,
     results |-> <<>>, order |-> <<>>, done |-> FALSE]

\* the except clause of _arun: the call returns the error text, the coroutines
\* still running are abandoned and _last_search_results keeps its value
ArunExcept(e) ==
    /\ output' = ErrorOutput(e)
    /\ search_stage' = "returned"
    /\ UNCHANGED <<results_list, last_search_results>>

\* _arun up to its await: no query gives the error text at once, otherwise one
\* _execute_single_search coroutine per query is started
ArunBegin ==
    /\ mode = "search"
    /\ search_stage = "called"
    /\ LET sq == search_queries(call_args)
       IN  IF sq = <<>>
           THEN /\ output' = NoQueriesOutput
                /\ search_stage' = "returned"
                /\ UNCHANGED <<tasks, results_list>>
           ELSE /\ tasks' = [t \in DOMAIN sq |-> NewTask(sq[t])]
                /\ results_list' = [t \in DOMAIN sq |-> <<>>]
                /\ search_stage' = "gather"
                /\ UNCHANGED output
    /\ UNCHANGED <<store, default_pubdivid, call_args, last_search_results, calls,
                   graph_vars, fetch_vars, filter_vars, parser_vars, session_vars>>

\* the page request of one coroutine completes (_search_pages): a failure is
\* raised through fetch_search_pages_and_docs, _execute_single_search and the
\* gather of _arun
SearchPage ==
    /\ mode = "search"
    /\ search_stage = "gather"
    /\ \E t \in DOMAIN tasks :
        /\ tasks[t].page = "pending"
        /\ LET q == tasks[t].query
               its == SearchItemsOf(q, default_pubdivid)
           IN  IF store[q].page = "ok"
               THEN /\ tasks' = [tasks EXCEPT ![t] =
                                    [@ EXCEPT !.page = "ok",
                                              !.items = its,
                                              !.net = [i \in DOMAIN its |-> None],
                                              !.results = [i \in DOMAIN its |-> <<>>]]]
                    /\ UNCHANGED <<results_list, search_stage, output, last_search_results>>
               ELSE /\ tasks' = [tasks EXCEPT ![t] = [@ EXCEPT !.page = store[q].page]]
                    /\ ArunExcept(store[q].page)
    /\ UNCHANGED <<store, default_pubdivid, call_args, calls, graph_vars, fetch_vars, filter_vars, parser_vars, session_vars>>

\* one document request of one coroutine completes (fetch_one in _fetch_docs)
SearchFetchOne ==
    /\ mode = "search"
    /\ search_stage = "gather"
    /\ \E t \in DOMAIN tasks :
        /\ tasks[t].page = "ok"
        /\ \E i \in DOMAIN tasks[t].items :
            /\ tasks[t].net[i] = None
            /\ LET item == tasks[t].items[i]
                   outcome == BodyOf(tasks[t].query, item.id).net
                   r == fetch_one(item, outcome)
               IN  /\ tasks' = [tasks EXCEPT ![t] =
                                    [@ EXCEPT !.net = [@ EXCEPT ![i] = outcome],
                                              !.results = gather(@, i, r),
                                              !.order = Append(@, i)]]
                   /\ IF r.raised
                      THEN ArunExcept(outcome)
                      ELSE UNCHANGED <<results_list, search_stage, output,
                                       last_search_results>>
    /\ UNCHANGED <<store, default_pubdivid, call_args, calls, graph_vars, fetch_vars, filter_vars, parser_vars, session_vars>>

\* a wait that ends with the first document request that completes
docs_joined_on_first(task) ==
    task.items = <<>> \/ \E i \in DOMAIN task.items : task.net[i] # None

\* results = await asyncio.gather(*[fetch_one(it) for it in items_list]): the
\* await ends when every fetch_one has returned
docs_joined(task) == \A i \in DOMAIN task.items : task.net[i] # None

\* list(results): the results the gather holds, in the order of the items
RECURSIVE joined_results(_)
joined_results(rs) ==
    IF rs = <<>> THEN <<>> ELSE Head(rs) \o joined_results(Tail(rs))

\* every document request of a coroutine is done: the client returns the results
\* and the coroutine runs its loop and returns
SearchTaskJoin ==
    /\ mode = "search"
    /\ search_stage = "gather"
    /\ \E t \in DOMAIN tasks :
        /\ tasks[t].page = "ok"
        /\ ~tasks[t].done
        /\ docs_joined(tasks[t])
        /\ LET rs == joined_results(tasks[t].results)
               res == execute_single_search(tasks[t].query, rs, effective_limit(call_args))
           IN  /\ results_list' = gather(results_list, t, res)
               /\ tasks' = [tasks EXCEPT ![t] = [@ EXCEPT !.done = TRUE]]
    /\ UNCHANGED <<store, default_pubdivid, call_args, search_stage, output,
                   last_search_results, calls, graph_vars, fetch_vars, filter_vars, parser_vars, session_vars>>

\* the structured results assigned as each coroutine returns
ArunJoin_per_result ==
    /\ mode = "search"
    /\ search_stage = "gather"
    /\ \E t \in DOMAIN tasks : tasks[t].done
    /\ LET joined == SelectSeq(results_list, LAMBDA r : r # <<>>)
           rl == [t \in DOMAIN joined |-> joined[t][1]]
           all == \A t \in DOMAIN tasks : tasks[t].done
       IN  /\ output' = IF all THEN format_output(call_args, default_pubdivid, rl) ELSE output
           /\ last_search_results' = <<structured_results(rl)>>
           /\ search_stage' = IF all THEN "returned" ELSE "gather"
    /\ UNCHANGED <<store, default_pubdivid, call_args, tasks, results_list, calls,
                   graph_vars, fetch_vars, filter_vars, parser_vars, session_vars>>

\* every coroutine returned: the gather of _arun returns, the output is
\* formatted, the structured results are kept and the call returns
ArunJoin ==
    /\ mode = "search"
    /\ search_stage = "gather"
    /\ \A t \in DOMAIN tasks : tasks[t].done
    /\ LET rl == [t \in DOMAIN results_list |-> results_list[t][1]]
       IN  /\ output' = format_output(call_args, default_pubdivid, rl)
           /\ last_search_results' = <<structured_results(rl)>>
    /\ search_stage' = "returned"
    /\ UNCHANGED <<store, default_pubdivid, call_args, tasks, results_list, calls,
                   graph_vars, fetch_vars, filter_vars, parser_vars, session_vars>>

\* the document requests of a coroutine completed in the order of its items
\* (tasks[t].order lists them as they completed)
InOrder(order) == \A i, j \in DOMAIN order : i < j => order[i] < order[j]

\* the documents a returned call handed to its caller, per query of the call
ReturnedDocuments(out, rl) ==
    IF out.kind = "formatted"
    THEN [t \in DOMAIN rl |-> rl[t][1].documents]
    ELSE <<>>

\* the tool is called again, the store unchanged: with the same arguments, or
\* with neither query nor queries
ArunAgain ==
    /\ mode = "search"
    /\ search_stage = "returned"
    /\ calls = <<>>
    /\ call_args' \in {call_args, [call_args EXCEPT !.query = None, !.queries = <<>>]}
    /\ calls' = <<[ args      |-> call_args,
                    output    |-> output,
                    documents |-> ReturnedDocuments(output, results_list),
                    in_order  |-> \A t \in DOMAIN tasks : InOrder(tasks[t].order),
                    last_search_results |-> last_search_results ]>>
    /\ search_stage' = "called"
    /\ tasks' = <<>>
    /\ results_list' = <<>>
    /\ output' = NoOutput
    /\ UNCHANGED <<store, default_pubdivid, last_search_results,
                   graph_vars, fetch_vars, filter_vars, parser_vars, session_vars>>

(***************************************************************************)
(* The relevance filter.  No source file holds it: it is modelled from the *)
(* specification (section 4.4).                                            *)
(***************************************************************************)
\* what the model call for one (query, document) pair gives: passages answering
\* the query, empty output, the "no answer" sentinel, or a failure
FilterVerdicts == {"passages", "empty", "no_answer", "raise"}

FilterIdle == [stage |-> "idle", input |-> <<>>, verdicts |-> <<>>, output |-> <<>>]

\* the documents of one query that survive, in input order, their content
\* reduced to the passages
filter_documents(docs, verdicts) ==
    LET tagged == [i \in DOMAIN docs |-> [doc |-> docs[i], verdict |-> verdicts[i]]]
        kept == SelectSeq(tagged, LAMBDA x : x.verdict = "passages")
    IN  [j \in DOMAIN kept |-> [kept[j].doc EXCEPT !.content = "passages"]]

\* a filter that keeps every query, a note standing in for its dropped documents
filter_output_with_note(input, verdicts) ==
    [q \in DOMAIN input |->
        IF filter_documents(input[q], verdicts[q]) = <<>>
        THEN <<[id |-> 0, content |-> "no relevant passages"]>>
        ELSE filter_documents(input[q], verdicts[q])]

\* the output mapping: the queries with a surviving document
filter_output(input, verdicts) ==
    [q \in {k \in DOMAIN input : filter_documents(input[k], verdicts[k]) # <<>>} |->
        filter_documents(input[q], verdicts[q])]

\* the model call of one pair completes; a failure is caught
FilterOne ==
    /\ mode = "filter"
    /\ relevance.stage = "gather"
    /\ \E q \in DOMAIN relevance.input :
        \E i \in DOMAIN relevance.input[q] :
            /\ relevance.verdicts[q][i] = None
            /\ \E v \in FilterVerdicts :
                relevance' = [relevance EXCEPT !.verdicts[q][i] = v]
    /\ UNCHANGED <<graph_vars, fetch_vars, search_vars, parser_vars, session_vars>>

\* every pair is done: the filter returns its mapping
FilterJoin ==
    /\ mode = "filter"
    /\ relevance.stage = "gather"
    /\ \A q \in DOMAIN relevance.input :
        \A i \in DOMAIN relevance.input[q] : relevance.verdicts[q][i] # None
    /\ relevance' = [relevance EXCEPT
                        !.stage = "returned",
                        !.output = filter_output(relevance.input, relevance.verdicts)]
    /\ UNCHANGED <<graph_vars, fetch_vars, search_vars, parser_vars, session_vars>>

(***************************************************************************)
(* tools/action_internal/xml_parser.py: XmlDocumentParser                  *)
(* A topTextXml string is a sequence of tokens: tags, words, a punctuation *)
(* mark and the entity of a less-than sign.  Whitespace is not modelled: a *)
(* text is the sequence of its words ("" is <<>>).                         *)
(***************************************************************************)
\* longest topTextXml the model parses, in tokens
MaxTokens == 4

\* graph invocations that run at the same time
MaxInvocations == 2

\* the tokens that are tags, <br/> being a normalized <br>
XmlTags == {"<p>", "</p>", "<br>", "<br/>"}

\* payloads handed to the parser: a mapping with or without the "data" wrapper
\* holding a topTextXml string (or none) and the title fields (absent, empty or
\* a text), a value that is no mapping (None), a wrapper whose data is none
Payloads ==
    LET XmlTokens == {"<p>", "</p>", "<br>", "a", ":", "&lt;"}
        Bodies == UNION {[1..n -> XmlTokens] : n \in 0..MaxTokens}
        value == [title |-> "Title", name |-> "Name", docName |-> "DocName",
                  documentName |-> "DocumentName"]
        FieldNames == DOMAIN value
        Fields == {f \in [FieldNames -> {NoNext, "", "Title", "Name", "DocName", "DocumentName"}] :
                        \A n \in FieldNames : f[n] \in {NoNext, "", value[n]}}
    IN  {[shape |-> sh, has_xml |-> TRUE, topTextXml |-> b, fields |-> value] :
            sh \in {"mapping", "wrapped"}, b \in Bodies}
        \cup {[shape |-> sh, has_xml |-> h,
                topTextXml |-> IF h THEN <<"<p>", "a", "</p>">> ELSE <<>>, fields |-> f] :
            sh \in {"mapping", "wrapped"}, h \in BOOLEAN, f \in Fields}
        \cup {[shape |-> sh, has_xml |-> FALSE, topTextXml |-> <<>>,
                fields |-> [n \in DOMAIN value |-> NoNext]] :
            sh \in {"not_a_mapping", "data_not_a_mapping"}}

\* ET.fromstring succeeds: one root element (a lone <br/>, or <p> closed by the
\* last token with every tag inside it balanced), all text inside the root and
\* no bare less-than sign
ET_fromstring(xml) ==
    LET depth(i) == Cardinality({j \in 1..i : xml[j] = "<p>"})
                        - Cardinality({j \in 1..i : xml[j] = "</p>"})
    IN  /\ xml # <<>>
        /\ \A i \in DOMAIN xml : xml[i] # "<"
        /\ \/ xml = <<"<br/>">>
           \/ /\ xml[1] = "<p>"
              /\ \A i \in 1..(Len(xml) - 1) : depth(i) >= 1
              /\ depth(Len(xml)) = 0

\* _clean_text on a text of words: a text that ends on a colon ends on an
\* ellipsis instead (the spacing rules leave the words as they are)
clean_text(text) ==
    IF text # <<>> /\ Last(text) = ":"
    THEN SubSeq(text, 1, Len(text) - 1) \o <<"...">>
    ELSE text

\* _extract_text_fallback: re.sub(r"<[^>]+>", " ", ...) removes every tag, and
\* with it whatever lies between a bare less-than sign and the end of the next
\* tag; a less-than sign with no tag after it stays
RECURSIVE strip_tags(_)
strip_tags(xml) ==
    IF xml = <<>> THEN <<>>
    ELSE IF Head(xml) \in XmlTags THEN strip_tags(Tail(xml))
    ELSE IF Head(xml) = "<" /\ \E j \in 2..Len(xml) : xml[j] \in XmlTags
    THEN strip_tags(SubSeq(xml, SetMin({j \in 2..Len(xml) : xml[j] \in XmlTags}) + 1,
                           Len(xml)))
    ELSE <<Head(xml)>> \o strip_tags(Tail(xml))

\* XmlDocumentParser.parse: "" for a payload without a topTextXml text (any
\* exception is caught), else the text of the parsed fragment, or the fallback
\* extraction of the unescaped string when the fragment does not parse
parse(json_response) ==
    LET xml_content == json_response.topTextXml
        decoded_xml == [i \in DOMAIN xml_content |->
                          IF xml_content[i] = "&lt;" THEN "<" ELSE xml_content[i]]
        normalized_xml == [i \in DOMAIN decoded_xml |->
                          IF decoded_xml[i] = "<br>" THEN "<br/>" ELSE decoded_xml[i]]
        is_text(x) == x \notin XmlTags
    IN  [ raised |-> FALSE,
          fallback |-> /\ json_response.shape \in {"mapping", "wrapped"}
                       /\ xml_content # <<>>
                       /\ ~ET_fromstring(normalized_xml),
          text |-> IF json_response.shape \notin {"mapping", "wrapped"} THEN <<>>
                   ELSE IF ~json_response.has_xml \/ xml_content = <<>> THEN <<>>
                   ELSE IF ET_fromstring(normalized_xml)
                   THEN clean_text(SelectSeq(normalized_xml, is_text))
                   ELSE clean_text(strip_tags(decoded_xml)) ]

\* get_title with the alternate names tried in another order
get_title_docName_first(json_response) ==
    LET data == json_response.fields
        alternates == <<"docName", "name", "documentName">>
        found == {i \in DOMAIN alternates : data[alternates[i]] \notin {NoNext, ""}}
    IN  [ raised |-> FALSE,
          title |-> IF data["title"] \notin {NoNext, ""} THEN data["title"]
                    ELSE IF found # {} THEN data[alternates[SetMin(found)]]
                    ELSE "" ]

\* XmlDocumentParser.get_title: title, else the first of name, docName,
\* documentName that is present and truthy, else ""; a payload that is no
\* mapping has no field (the exception is caught)
get_title(json_response) ==
    LET data == json_response.fields
        alternates == <<"name", "docName", "documentName">>
        found == {i \in DOMAIN alternates : data[alternates[i]] \notin {NoNext, ""}}
    IN  [ raised |-> FALSE,
          title |-> IF data["title"] \notin {NoNext, ""} THEN data["title"]
                    ELSE IF found # {} THEN data[alternates[SetMin(found)]]
                    ELSE "" ]

\* xml_title = self._xml_parser.get_title(res.document)
ParserGetTitle ==
    /\ mode = "parser"
    /\ parser.stage = "start"
    /\ parser' = [parser EXCEPT !.stage = "titled",
                                !.raised = get_title(parser.json_response).raised,
                                !.title = get_title(parser.json_response).title]
    /\ UNCHANGED <<graph_vars, fetch_vars, search_vars, filter_vars, session_vars>>

\* parsed_text = self._xml_parser.parse(res.document)
ParserParse ==
    /\ mode = "parser"
    /\ parser.stage = "titled"
    /\ ~parser.raised
    /\ parser' = [parser EXCEPT !.stage = "parsed",
                                !.raised = parse(parser.json_response).raised,
                                !.fallback = parse(parser.json_response).fallback,
                                !.text = parse(parser.json_response).text]
    /\ UNCHANGED <<graph_vars, fetch_vars, search_vars, filter_vars, session_vars>>

(***************************************************************************)
(* Expert calls of concurrent graph invocations and their search tools.    *)
(* sessions.inv[i] is the expert call of invocation i, sessions.instances  *)
(* the _last_search_results of every KnowledgeSearchTool built so far      *)
(* (<<>> is None); structured results carry the invocation whose search    *)
(* produced them.                                                          *)
(***************************************************************************)
\* one tool object made when the module is loaded and used by every call
create_search_tool_once(instances) == 1

\* create_search_tool(): a new KnowledgeSearchTool on every call
create_search_tool(instances) == Len(instances) + 1

\* action_search = create_search_tool(...) at the start of the expert node;
\* __init__ sets _last_search_results = None
SessionCreateTool ==
    /\ mode = "concurrent"
    /\ \E i \in DOMAIN sessions.inv :
        /\ sessions.inv[i].stage = "start"
        /\ LET tool == create_search_tool(sessions.instances)
           IN  sessions' =
                [ inv |-> [sessions.inv EXCEPT ![i] = [@ EXCEPT !.stage = "decided",
                                                                !.tool = tool]],
                  instances |-> IF tool \in DOMAIN sessions.instances
                                THEN sessions.instances
                                ELSE Append(sessions.instances, <<>>) ]
    /\ UNCHANGED <<graph_vars, fetch_vars, search_vars, filter_vars, parser_vars>>

\* tool_result = await tool.ainvoke(tool_args): a call that completes keeps its
\* structured results on the tool, a call that fails leaves the tool as it is
SessionSearch ==
    /\ mode = "concurrent"
    /\ \E i \in DOMAIN sessions.inv, completes \in BOOLEAN :
        /\ sessions.inv[i].stage = "decided"
        /\ sessions' =
            [ inv |-> [sessions.inv EXCEPT ![i] = [@ EXCEPT !.stage = "searched",
                                                            !.completed = completes]],
              instances |-> IF completes
                            THEN [sessions.instances EXCEPT ![sessions.inv[i].tool] =
                                    <<[by |-> i, query |-> sessions.inv[i].query]>>]
                            ELSE sessions.instances ]
    /\ UNCHANGED <<graph_vars, fetch_vars, search_vars, filter_vars, parser_vars>>

\* structured_results = tool.get_last_search_results(), rendered into the
\* system prompt of the grounding call
SessionGround ==
    /\ mode = "concurrent"
    /\ \E i \in DOMAIN sessions.inv :
        /\ sessions.inv[i].stage = "searched"
        /\ sessions' =
            [sessions EXCEPT !.inv[i] =
                [@ EXCEPT !.stage = "grounded",
                          !.materials = sessions.instances[sessions.inv[i].tool]]]
    /\ UNCHANGED <<graph_vars, fetch_vars, search_vars, filter_vars, parser_vars>>

(***************************************************************************)
(* Specifications                                                          *)
(***************************************************************************)
FetchIdle ==
    /\ items = <<>>
    /\ results = <<>>
    /\ net = <<>>
    /\ fetch_stage = "idle"
    /\ fetched = <<>>

SearchIdle ==
    /\ store = <<>>
    /\ default_pubdivid = 13
    /\ call_args = [query |-> None, queries |-> <<>>, limit |-> <<>>]
    /\ tasks = <<>>
    /\ results_list = <<>>
    /\ search_stage = "idle"
    /\ output = NoOutput
    /\ last_search_results = <<>>
    /\ calls = <<>>
    /\ relevance = FilterIdle

NodeIdle ==
    /\ frame = NewFrame
    /\ ret = NoUpdate
    /\ raised = FALSE
    /\ trace = <<>>
    /\ stage = "start"

\* server.py chat_endpoint / main.py test_agent: one user message, no next (or "")
Init ==
    /\ mode = "graph"
    /\ pc = entry_point
    /\ messages \in {<<HumanMessage(c)>> : c \in EntryContents}
    /\ next \in {NoNext, ""}
    /\ NodeIdle
    /\ parser = <<>>
    /\ sessions = <<>>
    /\ FetchIdle
    /\ SearchIdle

\* the supervisor never selects accounting_expert (C8), so a graph run has no
\* accounting step to take
Next ==
    \/ SupervisorBegin
    \/ SupervisorDecide
    \/ LegalBegin
    \/ LegalDecide
    \/ LegalTool
    \/ LegalGround

Spec == Init /\ [][Next]_vars

\* messages a history can hold when a node function is called directly
MessageAlphabet ==
    {HumanMessage(c) : c \in UserContents}
        \cup {AIMessage(<<"answer">>), ToolMessage(<<"docs">>)}

Histories == UNION {[1..n -> MessageAlphabet] : n \in 0..MaxHist}

\* one node function called on a state
NodeInit ==
    /\ mode = "node"
    /\ pc \in RegisteredNodes
    /\ messages \in Histories
    /\ next \in {"", "LegalExpert"}
    /\ NodeIdle
    /\ parser = <<>>
    /\ sessions = <<>>
    /\ FetchIdle
    /\ SearchIdle

NodeNext ==
    \/ SupervisorBegin
    \/ SupervisorDecide
    \/ LegalBegin
    \/ LegalDecide
    \/ LegalTool
    \/ LegalGround
    \/ AccountingBegin
    \/ AccountingDecide
    \/ AccountingForcedTool
    \/ AccountingForcedGround
    \/ AccountingTool
    \/ AccountingGround

NodeSpec == NodeInit /\ [][NodeNext]_vars

\* execute_expert_node called on a state with a tools_map of the caller's choice
ExpertInit ==
    /\ mode = "expert"
    /\ pc = "accounting_expert"
    /\ messages \in Histories
    /\ next \in {"", "LegalExpert"}
    /\ NodeIdle
    /\ parser = <<>>
    /\ sessions = <<>>
    /\ FetchIdle
    /\ SearchIdle

ExpertNext ==
    \/ AccountingBegin
    \/ AccountingDecide
    \/ AccountingForcedTool
    \/ AccountingForcedGround
    \/ AccountingTool
    \/ AccountingGround

ExpertSpec == ExpertInit /\ [][ExpertNext]_vars

\* _fetch_docs called on the items of a search
FetchInit ==
    /\ mode = "fetch"
    /\ pc = "none"
    /\ messages = <<>>
    /\ next = NoNext
    /\ NodeIdle
    /\ parser = <<>>
    /\ sessions = <<>>
    /\ \E n \in 0..MaxItems, p \in Pubdivids :
        /\ items = ItemsOf(n, p)
        /\ results = [i \in 1..n |-> <<>>]
        /\ net = [i \in 1..n |-> None]
    /\ fetch_stage = "gather"
    /\ fetched = <<>>
    /\ SearchIdle

FetchNext ==
    \/ FetchOne
    \/ FetchJoin

FetchSpec == FetchInit /\ [][FetchNext]_vars

\* the arguments of a call: no query, the single query, a list of two queries,
\* a list naming one query twice; no limit, or a limit of one or two documents
SearchArgs ==
    [ query   : {None},
      queries : {<<>>, <<"q1", "q2">>, <<"q2", "q2">>},
      limit   : {<<>>, <<1>>, <<2>>} ]
        \cup [ query : {"q1"}, queries : {<<>>}, limit : {<<>>, <<1>>, <<2>>} ]

\* the stores a call can meet: documents of every kind behind a call of one
\* query, fetched or failed short documents behind a call of several
StoresFor(args) ==
    LET sq == search_queries(args)
    IN  [ {sq[t] : t \in DOMAIN sq} ->
            Pages(IF Len(sq) = 1 THEN RichBodies ELSE CoarseBodies) ]

\* create_search_tool() / create_search_tool(default_pubdivid=1), then _arun
\* called on the new tool, and called once more with the same arguments
SearchInit ==
    /\ mode = "search"
    /\ pc = "none"
    /\ messages = <<>>
    /\ next = NoNext
    /\ NodeIdle
    /\ parser = <<>>
    /\ sessions = <<>>
    /\ FetchIdle
    /\ default_pubdivid \in Pubdivids
    /\ call_args \in SearchArgs
    \* collection 3 takes every branch collection 13 takes: one-query calls only
    /\ default_pubdivid = 3 => Len(search_queries(call_args)) <= 1
    /\ store \in StoresFor(call_args)
    /\ tasks = <<>>
    /\ results_list = <<>>
    /\ search_stage = "called"
    /\ output = NoOutput
    /\ last_search_results = <<>>
    /\ calls = <<>>
    /\ relevance = FilterIdle

SearchNext ==
    \/ ArunBegin
    \/ SearchPage
    \/ SearchFetchOne
    \/ SearchTaskJoin
    \/ ArunJoin
    \/ ArunAgain

SearchSpec == SearchInit /\ [][SearchNext]_vars

\* the filter called on a structured result: a mapping from some of the queries
\* to up to MaxDocs documents each
FilterInit ==
    /\ mode = "filter"
    /\ pc = "none"
    /\ messages = <<>>
    /\ next = NoNext
    /\ NodeIdle
    /\ parser = <<>>
    /\ sessions = <<>>
    /\ FetchIdle
    /\ store = <<>>
    /\ default_pubdivid = 13
    /\ call_args = [query |-> None, queries |-> <<>>, limit |-> <<>>]
    /\ tasks = <<>>
    /\ results_list = <<>>
    /\ search_stage = "idle"
    /\ output = NoOutput
    /\ last_search_results = <<>>
    /\ calls = <<>>
    /\ \E qs \in SUBSET Queries :
        \E n \in [qs -> 0..MaxDocs] :
            relevance =
                [ stage    |-> "gather",
                  input    |-> [q \in qs |->
                                  [i \in 1..n[q] |-> [id |-> DocId(q, i), content |-> "full"]]],
                  verdicts |-> [q \in qs |-> [i \in 1..n[q] |-> None]],
                  output   |-> <<>> ]

FilterNext ==
    \/ FilterOne
    \/ FilterJoin

FilterSpec == FilterInit /\ [][FilterNext]_vars

\* the parser of a gateway document called on a payload: get_title, then parse
ParserInit ==
    /\ mode = "parser"
    /\ pc = "none"
    /\ messages = <<>>
    /\ next = NoNext
    /\ NodeIdle
    /\ FetchIdle
    /\ SearchIdle
    /\ sessions = <<>>
    /\ \E p \in Payloads :
        parser = [ stage |-> "start", json_response |-> p, raised |-> FALSE,
                   fallback |-> FALSE, text |-> <<>>, title |-> "" ]

ParserNext ==
    \/ ParserGetTitle
    \/ ParserParse

ParserSpec == ParserInit /\ [][ParserNext]_vars

\* the expert calls of MaxInvocations graph invocations, each with its own
\* question, interleaved at their awaits
ConcurrentInit ==
    /\ mode = "concurrent"
    /\ pc = "none"
    /\ messages = <<>>
    /\ next = NoNext
    /\ NodeIdle
    /\ parser = <<>>
    /\ FetchIdle
    /\ SearchIdle
    /\ \E qs \in [1..MaxInvocations -> Queries] :
        sessions =
            [ inv |-> [i \in 1..MaxInvocations |->
                        [ stage |-> "start", query |-> qs[i], tool |-> 0,
                          completed |-> FALSE, materials |-> <<>> ]],
              instances |-> <<>> ]

ConcurrentNext ==
    \/ SessionCreateTool
    \/ SessionSearch
    \/ SessionGround

ConcurrentSpec == ConcurrentInit /\ [][ConcurrentNext]_vars

(***************************************************************************)
(* Properties                                                              *)
(***************************************************************************)
\* the last finished node call was a call of `node` (frame, ret and raised are its)
JustReturned(node) ==
    /\ stage = "start"
    /\ trace # <<>>
    /\ Last(trace) = node

ExpertJustReturned == \E e \in ExpertNodes : JustReturned(e)

ExpertRan == \E i \in DOMAIN trace : trace[i] \in ExpertNodes

\* a graph run never schedules the accounting expert: Next leaves out no step
AccountingNeverScheduled == mode = "graph" => pc # "accounting_expert"

\* C1: whenever the Supervisor has run on a history whose last message is an
\* assistant message, it returned next = FINISH and made no model call.
C1_AssistantLastMeansFinish ==
    (JustReturned("supervisor") /\ messages # <<>> /\ Last(messages).role = "ai")
        => (next = "FINISH" /\ ret = NextUpdate("FINISH") /\ frame.llm_calls = 0)

\* C2: once an expert has answered in a graph run, the next Supervisor step ends
\* the run: no expert is scheduled a second time, whatever the model outputs.
C2_NoExpertAfterExpertAnswer ==
    (mode = "graph" /\ ExpertRan) => pc \notin ExpertNodes

\* C3: an Expert call whose decided action is final_answer, on a history without
\* the search-evidence marker, is forced to call the search tool: the tool was
\* invoked and the returned answer is not the model's first, ungrounded one.
C3_GuardForcesToolCall ==
    (ExpertJustReturned /\ ~raised
        /\ frame.response.action = "final_answer"
        /\ ~has_search_results(messages))
        => (frame.forced /\ frame.tool_calls >= 1)

\* C4: an Expert call never lets an exception out, and whenever an exception was
\* raised at some stage, or the model's action has no handled shape, the update
\* holds exactly one assistant message, an apology.
C4_ExpertNeverRaises ==
    ExpertJustReturned =>
        /\ ~raised
        /\ (frame.exc # {}
            \/ (~frame.forced /\ frame.response.action = "call_tool"
                              /\ frame.response.tool = None)
            \/ (~frame.forced /\ frame.response.action = "final_answer"
                              /\ frame.response.content = <<>>))
            => /\ Len(ret.messages) = 1
               /\ ret.messages[1].role = "ai"
               /\ ret.messages[1].content \in Apologies
               /\ ret.next = NoNext

\* C5: the Supervisor never raises, and a Supervisor call in which an exception
\* was raised (prompt loading, model construction, model call, malformed model
\* output) returns next = FINISH.
C5_SupervisorCatchesAll ==
    /\ pc # "crashed"
    /\ JustReturned("supervisor") =>
        /\ ~raised
        /\ frame.exc # {} => (ret = NextUpdate("FINISH") /\ next = "FINISH")

C5_Witness ==
    /\ JustReturned("supervisor")
    /\ frame.exc = {"llm1"}
    /\ frame.llm_calls = 1
    /\ next = "FINISH"
    /\ pc = END

\* C6: the first node of a run is the Supervisor, every Expert step is directly
\* followed by the Supervisor, and the run ends only directly after a Supervisor
\* step that returned FINISH.
C6_FixedTopology ==
    /\ trace = <<>> => pc = "supervisor"
    /\ trace # <<>> => trace[1] = "supervisor"
    /\ \A i \in DOMAIN trace :
        trace[i] \in ExpertNodes =>
            IF i < Len(trace) THEN trace[i + 1] = "supervisor" ELSE pc = "supervisor"
    /\ pc = END =>
        /\ JustReturned("supervisor")
        /\ ret = NextUpdate("FINISH")
        /\ next = "FINISH"
    /\ pc \in RegisteredNodes \cup {END}

C6_Witness ==
    /\ pc = END
    /\ Len(trace) = 5
    /\ trace[2] = "legal_expert"
    /\ trace[4] = "legal_expert"

\* C7: on a history that holds no user message (the empty history included) the
\* Supervisor returns FINISH, whatever the model returns.
C7_NoUserMessageMeansFinish ==
    (JustReturned("supervisor") /\ \A i \in DOMAIN messages : messages[i].role # "human")
        => next = "FINISH"

\* the values a Supervisor call can put in next: the values of RouteResponse, and
\* FINISH from the exception handler
SupervisorDecisions == RouteResponse \cup {"FINISH"}

\* C8: the Supervisor's decisions are exactly the registered experts and FINISH:
\* each decision is FINISH or selects a registered expert node, and each
\* registered expert node is selected by some decision.
C8_DecisionsAreExpertsAndFinish ==
    /\ JustReturned("supervisor") => next \in SupervisorDecisions
    /\ \A d \in SupervisorDecisions :
        d = "FINISH" \/ route_supervisor(d) \in ExpertNodes
    /\ \A e \in ExpertNodes :
        \E d \in SupervisorDecisions : route_supervisor(d) = e

\* C9: when a graph run in which an expert ran has ended, the last message of
\* the history is an assistant message.
C9_LastMessageIsAssistant ==
    (mode = "graph" /\ pc = END /\ ExpertRan) => Last(messages).role = "ai"

\* C10: _fetch_docs never raises; a finished fetch_one holds, for a failed
\* request, the error and no document, and for a successful one its document and
\* no error; the returned list has one result per item, in item order.
C10_FetchFailuresAreIsolated ==
    /\ fetch_stage # "raised"
    /\ \A i \in DOMAIN results :
        results[i] # <<>> =>
            /\ ~results[i][1].raised
            /\ results[i][1].item.id = items[i].id
            /\ IF net[i] = "ok"
               THEN /\ results[i][1].document = <<[body_of |-> items[i].id]>>
                    /\ results[i][1].error = <<>>
               ELSE /\ results[i][1].document = <<>>
                    /\ results[i][1].error = <<net[i]>>
    /\ fetch_stage = "returned" =>
        /\ Len(fetched) = Len(items)
        /\ \A i \in DOMAIN items : fetched[i] = results[i][1]

C10_Witness ==
    /\ fetch_stage = "returned"
    /\ Len(fetched) = 3
    /\ net = <<"transport", "ok", "content_type">>
    /\ fetched[1].error = <<"transport">>
    /\ fetched[2].document # <<>>
    /\ fetched[3].document = <<>>

\* the items of the page of query q among the first `limit` whose request ended
\* without an error and with a non-empty document, and whose parser did not raise
Succeeded(q) ==
    {i \in 1..Min(effective_limit(call_args), Len(store[q].docs)) :
        /\ store[q].docs[i].net = "ok"
        /\ ~store[q].docs[i].empty
        /\ ~(default_pubdivid \notin GatewayPubdivids
                /\ store[q].docs[i].shape = "malformed")}

\* C11: a finished _execute_single_search returns exactly the items among the
\* first `limit` of the page whose fetch yielded a document and whose parse did
\* not raise, in page order; a failed document fetch or parse never makes the
\* call return an error.
C11_FailedItemsAreSkipped ==
    /\ \A t \in DOMAIN results_list :
        results_list[t] # <<>> =>
            LET q == results_list[t][1].query
                docs == results_list[t][1].documents
            IN  /\ Len(docs) = Cardinality(Succeeded(q))
                /\ \A d \in DOMAIN docs :
                    \E i \in Succeeded(q) : docs[d].source_id = DocId(q, i)
                /\ \A d, e \in DOMAIN docs :
                    d < e => docs[d].source_id < docs[e].source_id
    /\ output.kind = "error" =>
        \E t \in DOMAIN tasks : tasks[t].page \notin {"pending", "ok"}

C11_Witness ==
    /\ search_stage = "returned"
    /\ output.kind = "formatted"
    /\ Len(tasks) = 1
    /\ default_pubdivid = 1
    /\ effective_limit(call_args) = 2
    /\ Len(store[tasks[1].query].docs) = 2
    /\ store[tasks[1].query].docs[1].shape = "malformed"
    /\ store[tasks[1].query].docs[2].chars = 1
    /\ Len(results_list[1][1].documents) = 1
    /\ results_list[1][1].documents[1].source_id = DocId(tasks[1].query, 2)

\* a call has returned, the page request of one of its queries having failed
PageFailed(q) == store[q].page # "ok"

\* C12: in a call with several queries, the failure of one query's page request
\* does not keep the documents of the other queries from being returned: the
\* call returns the formatted output with the documents of every query whose
\* page was fetched.
C12_PageFailureIsIsolated ==
    (search_stage = "returned" /\ Len(search_queries(call_args)) > 1)
        => \A q \in DOMAIN store :
            (~PageFailed(q) /\ Succeeded(q) # {})
                => /\ output.kind = "formatted"
                   /\ \E t \in DOMAIN output.blocks :
                        /\ output.blocks[t].query = q
                        /\ Len(output.blocks[t].documents) = Cardinality(Succeeded(q))

\* C13: the content of every returned document is at most MAX_CHARS characters
\* long, and a content that was cut ends with the truncation marker.
C13_ContentWithinBudget ==
    \A t \in DOMAIN results_list :
        results_list[t] # <<>> =>
            \A d \in DOMAIN results_list[t][1].documents :
                LET content == results_list[t][1].documents[d].content
                    body == BodyOf(results_list[t][1].query,
                                   results_list[t][1].documents[d].source_id)
                IN  /\ TextLen(content) <= MAX_CHARS
                    /\ body.chars > MAX_CHARS => content.tail = <<TRUNCATION_MARKER>>

\* C14: after a call that ran to its end without an error, the structured
\* results hold one key for every query of the call, and a query that yielded
\* no document is a key holding the empty list.
C14_EveryQueryIsAKey ==
    (search_stage = "returned" /\ output.kind \in {"formatted", "no_documents"})
        => /\ last_search_results # <<>>
           /\ DOMAIN last_search_results[1]
                = {search_queries(call_args)[t] : t \in DOMAIN search_queries(call_args)}
           /\ \A q \in DOMAIN last_search_results[1] :
                /\ Len(last_search_results[1][q]) = Cardinality(Succeeded(q))
                /\ Succeeded(q) = {} => last_search_results[1][q] = <<>>

C14_Witness ==
    /\ search_stage = "returned"
    /\ output.kind = "formatted"
    /\ Len(tasks) = 2
    /\ DOMAIN last_search_results[1] = {"q1", "q2"}
    /\ last_search_results[1]["q1"] = <<>>
    /\ Len(store["q1"].docs) = 2
    /\ Len(last_search_results[1]["q2"]) = 2

\* the identifiers of the documents of a call, per query of the call
SourceIds(documents) ==
    [t \in DOMAIN documents |->
        [d \in DOMAIN documents[t] |-> documents[t][d].source_id]]

\* C15: a second call with the same queries and limit, the store unchanged,
\* returns the same document identifiers in the same order as the first,
\* whatever the order in which the page and document requests complete.
C15_SearchIsIdempotent ==
    (calls # <<>> /\ search_stage = "returned" /\ call_args = calls[1].args)
        => /\ SourceIds(ReturnedDocuments(output, results_list))
                = SourceIds(calls[1].documents)
           /\ output.kind = "formatted" => output = calls[1].output
           /\ last_search_results = calls[1].last_search_results

C15_Witness ==
    /\ calls # <<>>
    /\ call_args = calls[1].args
    /\ search_stage = "returned"
    /\ output.kind = "formatted"
    /\ Len(tasks) = 2
    /\ calls[1].in_order
    /\ tasks[2].order = <<2, 1>>
    /\ SourceIds(ReturnedDocuments(output, results_list))[2]
            = <<DocId(tasks[2].query, 1), DocId(tasks[2].query, 2)>>

\* C16: the relevance filter adds nothing: every query of its output is a query
\* of its input, and the documents it returns for a query are documents of that
\* query in the input, no more of them than the input held.
C16_FilterIsMonotone ==
    relevance.stage = "returned" =>
        /\ DOMAIN relevance.output \subseteq DOMAIN relevance.input
        /\ \A q \in DOMAIN relevance.output :
            /\ Len(relevance.output[q]) <= Len(relevance.input[q])
            /\ \A d \in DOMAIN relevance.output[q] :
                \E i \in DOMAIN relevance.input[q] :
                    relevance.input[q][i].id = relevance.output[q][d].id

C16_Witness ==
    /\ relevance.stage = "returned"
    /\ DOMAIN relevance.input = {"q1", "q2"}
    /\ relevance.verdicts["q1"] = <<"no_answer", "raise">>
    /\ relevance.verdicts["q2"] = <<"empty", "passages">>
    /\ DOMAIN relevance.output = {"q2"}
    /\ Len(relevance.output["q2"]) = 1
    /\ relevance.output["q2"][1].id = DocId("q2", 2)

\* the last finished call was an Expert call that ran the knowledge search: the
\* tool was invoked and returned
ExpertRanSearch ==
    /\ ExpertJustReturned
    /\ ~raised
    /\ frame.tool_calls >= 1
    /\ frame.tool_name = SEARCH_TOOL_NAME
    /\ "tool" \notin frame.exc

\* C17: the update returned by an Expert call that ran a search holds the
\* search_results key.
C17_UpdateCarriesSearchResults ==
    ExpertRanSearch => ret.search_results # NoNext

IsPrefix(s, t) == Len(s) <= Len(t) /\ SubSeq(t, 1, Len(s)) = s

\* C18: in a graph run every step leaves the history before it a prefix of the
\* history after it, and a Supervisor step leaves the history as it is.
C18_HistoryIsAppendOnly ==
    [][ /\ IsPrefix(messages, messages')
        /\ pc = "supervisor" => messages' = messages ]_vars

C18_Witness ==
    /\ mode = "graph"
    /\ pc = END
    /\ trace = <<"supervisor", "legal_expert", "supervisor", "legal_expert", "supervisor">>
    /\ Len(messages) = 4
    /\ messages[1].role = "human"
    /\ messages[2].role = "ai"
    /\ messages[3].role = "tool"
    /\ messages[4].role = "ai"

\* C19: every Supervisor call that returns puts next in its update, on the
\* error path too, and the state takes it; no step of an Expert call changes
\* next, and no Expert update holds it.
C19_NextIsWrittenBySupervisorOnly ==
    [][ /\ (pc = "supervisor" /\ trace' # trace /\ ~raised')
            => (ret'.next # NoNext /\ next' = ret'.next)
        /\ pc \in ExpertNodes
            => (next' = next /\ ret'.next = NoNext) ]_vars

C19_Witness ==
    /\ mode = "node"
    /\ JustReturned("supervisor")
    /\ frame.exc = {"llm_construction"}
    /\ frame.llm_calls = 0
    /\ ret.next = "FINISH"
    /\ next = "FINISH"

\* a coroutine of the returned search call has a page or document request that
\* has not completed
SubFetchInFlight ==
    \E t \in DOMAIN tasks :
        \/ tasks[t].page = "pending"
        \/ \E i \in DOMAIN tasks[t].net : tasks[t].net[i] = None

\* C20: in an Expert call the first model call has ended before a tool call
\* starts, no model call runs while a tool call runs, every tool call has ended
\* before the second model call starts, and a search call that has returned to
\* the Expert has no page or document request in flight.
C20_StagesAreSequential ==
    /\ (pc \in ExpertNodes \/ ExpertJustReturned) =>
        /\ frame.tool_calls >= 1 => frame.llm_done >= 1
        /\ frame.tool_calls > frame.tool_done => frame.llm_calls = frame.llm_done
        /\ frame.llm_calls >= 2 => frame.tool_done = frame.tool_calls
    /\ search_stage = "returned" => ~SubFetchInFlight

\* the tool name the expert call had to resolve is not bound in its tools_map:
\* the name the model requested, or the search tool the guard forces
ToolResolutionFailed ==
    \/ /\ frame.response.action = "call_tool"
       /\ frame.response.tool # None
       /\ frame.response.tool \notin frame.tools_map
    \/ /\ frame.response.action = "final_answer"
       /\ ~has_search_results(messages)
       /\ last_user_message(messages) # <<>>
       /\ SEARCH_TOOL_NAME \notin frame.tools_map

\* C21: an Expert call whose requested or forced tool name is not bound raises
\* no exception and makes its grounding model call with the error string that
\* names the tool as the tool result.
C21_UnboundToolFeedsErrorString ==
    (mode = "expert" /\ JustReturned("accounting_expert") /\ ToolResolutionFailed)
        => /\ ~raised
           /\ frame.llm_calls = 2
           /\ frame.tool_result = <<"Error: Tool not found: ", SEARCH_TOOL_NAME>>

\* C22: a node call made while the prompt provider is unavailable or failing,
\* and in which no construction step failed, holds a fallback prompt and has
\* made its model call; no exception was raised while the prompt was obtained.
C22_ProviderFailureFallsBack ==
    (frame.provider \in {"unavailable", "fails"}
        /\ frame.exc \cap {"tool_construction", "llm_construction"} = {})
        => /\ "prompt" \notin frame.exc
           /\ frame.system_prompt # <<>>
           /\ frame.llm_calls >= 1

\* C23: an Expert call whose telemetry sink raised on the search-results event
\* goes on as a call whose event was delivered: no exception is recorded, the
\* grounding model call is made on the tool's own output, and the update that
\* is returned is one the grounding output gives.
C23_TelemetryFailureIsIgnored ==
    (pc = "accounting_expert" \/ JustReturned("accounting_expert")) =>
        (frame.telemetry = "raise" =>
            /\ "tool" \notin frame.exc
            /\ frame.llm_calls = 2
            /\ frame.tool_result \in {ToolOutput("docs"), ToolOutput("nodocs")}
            /\ (JustReturned("accounting_expert") /\ "llm2" \notin frame.exc)
                  => /\ ~raised
                     /\ ret.messages \in {expert_answer(r) : r \in AccountingActions})

C23_Witness ==
    /\ mode = "node"
    /\ JustReturned("accounting_expert")
    /\ frame.telemetry = "raise"
    /\ frame.forced
    /\ frame.exc = {}
    /\ frame.tool_result = ToolOutput("docs")
    /\ ret.messages = <<AIMessage(<<"answer">>)>>

\* C24: XmlDocumentParser.parse raises for no payload; a fragment that does not
\* parse as XML gives the tag-stripping fallback extraction, and that
\* extraction is a non-empty text when the body holds a word or a punctuation
\* mark.
C24_FallbackGivesText ==
    (mode = "parser" /\ parser.stage = "parsed") =>
        /\ ~parser.raised
        /\ parser.fallback =>
            /\ parser.text \in Seq({"a", ":", "...", "<"})
            /\ (\E i \in DOMAIN parser.json_response.topTextXml :
                    parser.json_response.topTextXml[i] \in {"a", ":"})
                  => parser.text # <<>>

\* C25: get_title returns title when it is present and non-empty, else the
\* first present non-empty field of name, docName, documentName, else the empty
\* string, and raises for no payload.
C25_TitleFallsThroughInOrder ==
    (mode = "parser" /\ parser.stage \in {"titled", "parsed"}) =>
        LET f == parser.json_response.fields
            good(n) == f[n] # NoNext /\ f[n] # ""
        IN  /\ ~parser.raised
            /\ parser.title = IF good("title") THEN f["title"]
                              ELSE IF good("name") THEN f["name"]
                              ELSE IF good("docName") THEN f["docName"]
                              ELSE IF good("documentName") THEN f["documentName"]
                              ELSE ""

C25_Witness ==
    /\ mode = "parser"
    /\ parser.stage = "titled"
    /\ parser.json_response.shape = "wrapped"
    /\ parser.json_response.fields["title"] = ""
    /\ parser.json_response.fields["name"] = NoNext
    /\ parser.json_response.fields["docName"] = "DocName"
    /\ parser.json_response.fields["documentName"] = "DocumentName"
    /\ parser.title = "DocName"

\* C26: every document request of a search call went to the gateway endpoint
\* with the bearer token, and its document goes to the XML parser, exactly when
\* the item's collection is 3 or 13; every other request went to the public
\* endpoint without the token and its document goes to the JSON parser.
C26_EndpointAndParserAgree ==
    mode = "search" =>
        \A t \in DOMAIN tasks : \A i \in DOMAIN tasks[t].results :
            tasks[t].results[i] # <<>> =>
                LET res == tasks[t].results[i][1]
                    gateway == res.item.pubdivid \in {3, 13}
                    chosen == parse_document(res, BodyOf(tasks[t].query, res.item.id)).parser
                IN  IF gateway
                    THEN /\ res.item.url[1] = "INTERNAL_GATEWAY_API_URL"
                         /\ res.authorized
                         /\ chosen = "xml"
                    ELSE /\ res.item.url[1] = "DOC_API_URL"
                         /\ ~res.authorized
                         /\ chosen = "json"

C26_Witness ==
    /\ mode = "search"
    /\ search_stage = "returned"
    /\ default_pubdivid = 3
    /\ output.kind = "formatted"
    /\ \E t \in DOMAIN tasks : \E i \in DOMAIN tasks[t].results :
        /\ tasks[t].results[i] # <<>>
        /\ tasks[t].results[i][1].item.pubdivid = 3
        /\ tasks[t].results[i][1].authorized
        /\ tasks[t].results[i][1].document # <<>>

\* the connection pools that carry a request in flight
PoolsInUse ==
    {client_of(t) : t \in {u \in DOMAIN tasks :
                              \/ tasks[u].page = "pending"
                              \/ \E i \in DOMAIN tasks[u].net : tasks[u].net[i] = None}}

\* C27: the requests of one search call that are in flight go through one
\* connection pool, so the connections its limit admits at once are at most
\* MAX_CONNECTIONS.
C27_OnePoolPerSearchCall ==
    mode = "search" =>
        /\ Cardinality(PoolsInUse) <= 1
        /\ Cardinality(PoolsInUse) * MAX_CONNECTIONS <= MAX_CONNECTIONS

\* C28: when fetch_search_pages_and_docs returns to a coroutine, its page
\* request and every document request it issued have completed, and the list
\* it returns holds one result per extracted item, in item order, each with a
\* document or an error; a document request exists only after the page request
\* has been joined.
C28_ClientJoinsBeforeReturning ==
    [][ /\ \A t \in DOMAIN tasks :
            (t \in DOMAIN tasks' /\ ~tasks[t].done /\ tasks'[t].done) =>
                LET returned == joined_results(tasks[t].results)
                IN  /\ tasks[t].page = "ok"
                    /\ \A i \in DOMAIN tasks[t].items : tasks[t].net[i] # None
                    /\ Len(returned) = Len(tasks[t].items)
                    /\ \A i \in DOMAIN returned :
                        /\ returned[i].item.id = tasks[t].items[i].id
                        /\ (returned[i].document # <<>>) # (returned[i].error # <<>>)
        /\ \A t \in DOMAIN tasks' :
            tasks'[t].page # "ok" => (tasks'[t].items = <<>> /\ tasks'[t].net = <<>>) ]_vars

C28_Witness ==
    /\ mode = "search"
    /\ \E t \in DOMAIN tasks :
        /\ tasks[t].done
        /\ Len(tasks[t].items) = 2
        /\ tasks[t].order = <<2, 1>>
        /\ joined_results(tasks[t].results)[1].item.id = tasks[t].items[1].id
        /\ joined_results(tasks[t].results)[1].document # <<>>
        /\ joined_results(tasks[t].results)[2].error # <<>>

\* the queries and documents the string a call returned shows: one entry per
\* query block, none for an error text
StructuredFormOf(out) ==
    [q \in {out.blocks[t].query : t \in DOMAIN out.blocks} |->
        out.blocks[SetMax({t \in DOMAIN out.blocks : out.blocks[t].query = q})].documents]

\* C30: after every call on a tool instance, the first or a later one,
\* get_last_search_results holds the queries and documents of the string that
\* call returned, and none when the call failed or had no queries.
C30_LastResultsAreOfLastCall ==
    (mode = "search" /\ search_stage = "returned") =>
        LET held == IF last_search_results = <<>> THEN <<>> ELSE last_search_results[1]
            form == StructuredFormOf(output)
        IN  /\ DOMAIN held = DOMAIN form
            /\ \A q \in DOMAIN held : held[q] = form[q]

\* C29: whatever the interleaving of the invocations, the structured results an
\* expert call renders for its grounding call are those its own search
\* produced: the results of its own query when its search completed, none when
\* it failed, never results another invocation's search left on a tool.
C29_GroundingUsesOwnResults ==
    mode = "concurrent" =>
        \A i \in DOMAIN sessions.inv :
            sessions.inv[i].stage = "grounded" =>
                sessions.inv[i].materials =
                    IF sessions.inv[i].completed
                    THEN <<[by |-> i, query |-> sessions.inv[i].query]>>
                    ELSE <<>>

C29_Witness ==
    /\ mode = "concurrent"
    /\ sessions.inv[1].stage = "grounded"
    /\ sessions.inv[2].stage = "grounded"
    /\ sessions.inv[1].tool = 2
    /\ sessions.inv[2].tool = 1
    /\ ~sessions.inv[1].completed
    /\ sessions.inv[2].completed
    /\ sessions.inv[1].materials = <<>>
    /\ sessions.inv[2].materials = <<[by |-> 2, query |-> sessions.inv[2].query]>>

\* every title, url and content of the retained materials, and every query, is a
\* fragment of the text
ListsMaterials(text, materials) ==
    \A i \in DOMAIN materials :
        /\ Contains(text, materials[i].query)
        /\ \A j \in DOMAIN materials[i].documents :
            LET doc == materials[i].documents[j]
            IN  /\ Contains(text, doc.title)
                /\ Contains(text, doc.url)
                /\ Contains(text, doc.content)

\* C31: when an Expert call made its grounding model call and the tool it called
\* retains a non-empty structured result set, the system text of that call
\* lists those materials (query, title, url and content of each document); when
\* the tool retains none, the system text is the original prompt.
C31_GroundingPromptListsMaterials ==
    (ExpertJustReturned /\ frame.llm_calls = 2) =>
        /\ frame.materials # <<>> =>
                /\ IsPrefix(frame.system_prompt, frame.ground_prompt)
                /\ ListsMaterials(frame.ground_prompt, frame.materials)
        /\ frame.materials = <<>> => frame.ground_prompt = frame.system_prompt

\* C32: a forced tool call passes exactly one query, the most recent non-empty
\* user message cut to its first 200 characters: never more than 200.
C32_ForcedQueryIsTruncatedUserMessage ==
    (JustReturned("accounting_expert") /\ frame.forced) =>
        LET user == last_user_message(messages)
            queries == frame.forced_args.queries
        IN  /\ Len(queries) = 1
            /\ queries[1].of = user
            /\ queries[1].chars <= 200
            /\ queries[1].chars <= content_chars(user)
            /\ (queries[1].chars = 200 \/ queries[1].chars = content_chars(user))

\* a forced call on a user message longer than 200 characters has returned
C32_Witness ==
    /\ JustReturned("accounting_expert")
    /\ frame.forced
    /\ frame.tool_done = 1
    /\ content_chars(last_user_message(messages)) > 200
    /\ frame.forced_args.queries[1].chars = 200

\* C33: the text a Supervisor call submits to the routing model for analysis is
\* the content of the most recent user message of the history; it is never the
\* content of an assistant or tool-result message.
C33_RoutingAnalysesUserMessage ==
    (JustReturned("supervisor") /\ frame.llm_calls = 1
        /\ Contains(frame.llm_input, "analyse:"))
        => LET users == {i \in DOMAIN messages : messages[i].role = "human"
                                                   /\ messages[i].content # <<>>}
           IN  /\ users # {}
               /\ frame.llm_input
                      = <<"system_prompt", "analyse:">> \o messages[SetMax(users)].content

\* C36: the structured results a search tool retains change in one step only,
\* the step in which the gather of the call returns with every query joined, and
\* the value assigned has a key for every query of the call; while a later call
\* is running the tool still holds the complete set of the earlier call.
C36_RetainedSetIsNeverPartial ==
    [][ /\ last_search_results' # last_search_results =>
            /\ search_stage = "gather"
            /\ search_stage' = "returned"
            /\ \A t \in DOMAIN tasks : tasks[t].done
            /\ \A t \in DOMAIN results_list : results_list[t] # <<>>
            /\ DOMAIN last_search_results'[1]
                    = {search_queries(call_args)[t] : t \in DOMAIN search_queries(call_args)}
        /\ (calls' # <<>> /\ search_stage' \in {"called", "gather"}) =>
                last_search_results' = calls'[1].last_search_results ]_vars

\* a second call of two queries has one of them joined and the other running,
\* and the tool holds what the first call assigned
C36_Witness ==
    /\ mode = "search"
    /\ search_stage = "gather"
    /\ calls # <<>>
    /\ Len(tasks) = 2
    /\ \E t, u \in DOMAIN tasks : tasks[t].done /\ ~tasks[u].done
    /\ last_search_results # <<>>
    /\ last_search_results = calls[1].last_search_results
    /\ DOMAIN last_search_results[1] = {"q1", "q2"}

\* the model output an Expert call answered with: the output of the second call
\* when it was made and returned, else the first output
AnsweringAction ==
    IF frame.llm_done = 2 /\ "llm2" \notin frame.exc THEN frame.final_response
    ELSE frame.response

AnsweredDirectly ==
    /\ ExpertJustReturned /\ ~raised
    /\ frame.llm_done = 1 /\ frame.exc = {} /\ ~frame.forced
    /\ frame.response.action = "final_answer"

AnsweredAfterTool ==
    /\ ExpertJustReturned /\ ~raised
    /\ frame.llm_done = 2 /\ "llm2" \notin frame.exc

\* C35: when the output an Expert call answers with has content and a non-empty
\* references list, the assistant message appended is that content followed by
\* the list, one "- " entry per reference in the order given; with no references
\* it is the content alone.  Direct, decided-tool and forced-tool paths alike.
C35_ReferencesAreAppendedInOrder ==
    ((AnsweredDirectly \/ AnsweredAfterTool) /\ AnsweringAction.content # <<>>) =>
        LET a == AnsweringAction
            text == ret.messages[1].content
            rest == SubSeq(text, Len(a.content) + 1, Len(text))
            refs == {a.references[i] : i \in DOMAIN a.references}
        IN  /\ ret.messages[1].role = "ai"
            /\ IsPrefix(a.content, text)
            /\ a.references = <<>> => text = a.content
            /\ a.references # <<>> =>
                    /\ SelectSeq(rest, LAMBDA x : x \in refs) = a.references
                    /\ Len(SelectSeq(rest, LAMBDA x : x = "- ")) = Len(a.references)

\* the grounding call of a forced search answered with two references
C35_Witness ==
    /\ AnsweredAfterTool
    /\ frame.forced
    /\ frame.final_response.references = <<"ref1", "ref2">>
    /\ ret.messages[1].content
          = <<"answer", "\n\nIspolzovannye materialy:\n", "- ", "ref1", "\n", "- ", "ref2">>

\* C37: at every point of an Expert call at most one tool invocation and at most
\* two model calls have been made; when the second model output is call_tool
\* again, no further tool is invoked and the call returns an update with
\* exactly one assistant message.
C37_OneToolCallTwoModelCalls ==
    /\ (pc \in ExpertNodes \/ ExpertJustReturned) =>
            /\ frame.tool_calls <= 1 /\ frame.tool_done <= frame.tool_calls
            /\ frame.llm_calls <= 2 /\ frame.llm_done <= frame.llm_calls
    /\ (AnsweredAfterTool /\ frame.final_response.action = "call_tool") =>
            /\ frame.tool_calls <= 1
            /\ frame.llm_calls = 2
            /\ Cardinality({i \in DOMAIN ret.messages : ret.messages[i].role = "ai"}) = 1

\* after a completed search the second model output asked for the search tool
\* again and the call returned its one message
C37_Witness ==
    /\ AnsweredAfterTool
    /\ frame.tool_calls = 1 /\ frame.tool_done = 1
    /\ frame.llm_calls = 2
    /\ frame.final_response.action = "call_tool"
    /\ frame.final_response.tool = SEARCH_TOOL_NAME
    /\ Len(ret.messages) = 1

\* C38: after an Expert call that completed a search, the history holds the
\* evidence the guard looks for (a user-role message with the tool-result
\* header and the name of the search tool), so a later Expert call on that
\* history does not force another search.
C38_CompletedSearchLeavesEvidence ==
    ExpertRanSearch => has_search_results(messages)

====
